---- MODULE Spec2Model ----
(***************************************************************************)
(* Model of the Django job board portal: role-based access control         *)
(* (accounts/mixins.py, the ModelAdmin classes, admin.py) and the job      *)
(* alert matching engine (jobs/signals.py), over the relational state of   *)
(* companies/models.py and jobs/models.py.                                  *)
(***************************************************************************)
EXTENDS Integers, Sequences, FiniteSets, TLC

VARIABLES
    users,           \* auth.User rows joined with their UserProfile
    employers_group, \* the auth.Group named 'Employers' and its permissions
    jobseekers_group,\* the auth.Group named 'JobSeekers' and its permissions
    companies,       \* Company rows
    jobs,            \* Job rows
    applications,    \* Application rows
    alerts,          \* JobAlert rows
    notifications,   \* JobAlertNotification rows
    next_id,         \* AUTOINCREMENT primary keys, one counter per table
    req,             \* apply_for_job requests in flight, one per worker
    last,            \* the response to the last completed request
    today,           \* timezone.now().date(), in days
    db_ci            \* whether the database collation compares '=' case-insensitively

vars == <<users, employers_group, jobseekers_group, companies, jobs, applications, alerts,
          notifications, next_id, req, last, today, db_ci>>

----------------------------------------------------------------------------
(* Bounds of the model.                                                    *)

MaxCompanies == 1
MaxJobs == 1
MaxAlerts == 1
MaxApplications == 1
MaxDay == 1
NumWorkers == 2

Workers == 1..NumWorkers

----------------------------------------------------------------------------
(* Strings are sequences of one-character strings.                         *)

UpperCase == <<"A","B","C","D","E","F","G","H","I","J","K","L","M",
               "N","O","P","Q","R","S","T","U","V","W","X","Y","Z">>
LowerCase == <<"a","b","c","d","e","f","g","h","i","j","k","l","m",
               "n","o","p","q","r","s","t","u","v","w","x","y","z">>

\* str.lower() on one character
lower_char(c) ==
    IF \E i \in 1..26 : UpperCase[i] = c
    THEN LowerCase[CHOOSE i \in 1..26 : UpperCase[i] = c]
    ELSE c

\* str.lower()
lower(s) == [i \in 1..Len(s) |-> lower_char(s[i])]

\* the Python test `a in b` on strings: a is a contiguous substring of b
contains(b, a) ==
    \E i \in 0..(Len(b) - Len(a)) : SubSeq(b, i + 1, i + Len(a)) = a

\* the ORM lookup field__icontains=needle (case-insensitive LIKE '%needle%')
icontains(field, needle) == contains(lower(field), lower(needle))

is_space(c) == c = " "

RECURSIVE lstrip(_)
lstrip(s) == IF s # <<>> /\ is_space(Head(s)) THEN lstrip(Tail(s)) ELSE s

RECURSIVE rstrip(_)
rstrip(s) ==
    IF s # <<>> /\ is_space(s[Len(s)]) THEN rstrip(SubSeq(s, 1, Len(s) - 1)) ELSE s

\* str.strip()
strip(s) == rstrip(lstrip(s))

\* str.split(): the whitespace-delimited tokens of s, empty tokens dropped
RECURSIVE split_from(_, _, _)
split_from(s, i, cur) ==
    IF i > Len(s)
    THEN (IF cur = <<>> THEN {} ELSE {cur})
    ELSE IF is_space(s[i])
         THEN (IF cur = <<>> THEN {} ELSE {cur}) \cup split_from(s, i + 1, <<>>)
         ELSE split_from(s, i + 1, Append(cur, s[i]))

split(s) == split_from(s, 1, <<>>)

\* the ORM lookup field__in=values, an exact comparison under the collation
exact_in(field, values) ==
    IF db_ci THEN \E v \in values : lower(v) = lower(field)
    ELSE field \in values

----------------------------------------------------------------------------
(* Identity and role store.                                                *)

Users == {"e1", "e2", "a1", "a2", "su"}
Anonymous == "anonymous"
Subjects == Users \cup {Anonymous}

\* request.user.is_authenticated
is_authenticated(s) == s \in Users /\ users[s].exists

\* hasattr(request.user, 'userprofile')
has_userprofile(s) == users[s].has_profile

user_type(s) == users[s].user_type


\* check_user_type(user)
check_user_type(s) ==
    IF ~is_authenticated(s) THEN "None"
    ELSE IF ~has_userprofile(s) THEN "None"
    ELSE user_type(s)

is_employer(s) == check_user_type(s) = "employer"

is_jobseeker(s) == check_user_type(s) = "jobseeker"

----------------------------------------------------------------------------
(* Route-level gating: each gate answers "login" (redirect to the login    *)
(* page), "forbidden" (PermissionDenied, HTTP 403) or "pass".              *)

\* EmployerRequiredMixin.dispatch
EmployerRequiredMixin(s) ==
    IF ~is_authenticated(s) THEN "login"
    ELSE IF ~has_userprofile(s) \/ user_type(s) # "employer" THEN "forbidden"
    ELSE "pass"

\* JobSeekerRequiredMixin.dispatch
JobSeekerRequiredMixin(s) ==
    IF ~is_authenticated(s) THEN "login"
    ELSE IF ~has_userprofile(s) \/ user_type(s) # "jobseeker" THEN "forbidden"
    ELSE "pass"

\* the decorator employer_required
employer_required(s) ==
    IF ~is_authenticated(s) THEN "login"
    ELSE IF ~has_userprofile(s) \/ user_type(s) # "employer" THEN "forbidden"
    ELSE "pass"

\* jobseeker_required with the role test left out
jobseeker_required_any_role(s) ==
    IF ~is_authenticated(s) THEN "login" ELSE "pass"

\* the decorator jobseeker_required
jobseeker_required(s) ==
    IF ~is_authenticated(s) THEN "login"
    ELSE IF ~has_userprofile(s) \/ user_type(s) # "jobseeker" THEN "forbidden"
    ELSE "pass"

----------------------------------------------------------------------------
(* Ownership graph.                                                        *)

NoObj == [id |-> 0]

\* Model.objects.get(pk=id), NoObj when the row does not exist
GetRow(table, id) ==
    IF \E r \in table : r.id = id THEN CHOOSE r \in table : r.id = id ELSE NoObj

\* job.company.user
job_owner(job) == GetRow(companies, job.company).user

\* application.job.company.user
application_owner(app) == job_owner(GetRow(jobs, app.job))

----------------------------------------------------------------------------
(* Groups and permissions (django.contrib.auth).                           *)

\* the Employers group given the right to delete applications as well
permissions_to_add_with_delete ==
    {"companies.view_company", "companies.add_company",
     "companies.change_company", "companies.delete_company",
     "jobs.view_job", "jobs.add_job", "jobs.change_job", "jobs.delete_job",
     "jobs.view_application", "jobs.change_application",
     "jobs.delete_application"}

\* permissions_to_add in setup_employer_permissions
permissions_to_add ==
    {"companies.view_company", "companies.add_company",
     "companies.change_company", "companies.delete_company",
     "jobs.view_job", "jobs.add_job", "jobs.change_job", "jobs.delete_job",
     "jobs.view_application", "jobs.change_application"}

\* permissions_to_add for the JobSeekers group in setup_admin_permissions
jobseeker_permissions_to_add ==
    {"jobs.view_jobalert", "jobs.add_jobalert", "jobs.change_jobalert",
     "jobs.delete_jobalert", "jobs.view_application"}

NoGroup == [exists |-> FALSE, permissions |-> {}]

\* user.has_perm(perm): an active superuser has every permission, any other
\* active user the permissions of the groups they belong to
has_perm(u, perm) ==
    /\ users[u].is_active
    /\ \/ users[u].is_superuser
       \/ "Employers" \in users[u].groups /\ perm \in employers_group.permissions
       \/ "JobSeekers" \in users[u].groups /\ perm \in jobseekers_group.permissions

\* AdminSite.has_permission of the default admin site mounted at admin/
admin_site_has_permission(s) ==
    is_authenticated(s) /\ users[s].is_active /\ users[s].is_staff

----------------------------------------------------------------------------
(* Object-level gating of the admin: the ModelAdmin permission hooks.  An  *)
(* absent object (obj=None) is NoObj.                                      *)

\* CompanyAdmin.get_queryset: every Company row
CompanyAdmin_get_queryset(s) == companies

\* CompanyAdmin.has_view_permission
CompanyAdmin_has_view_permission(s, obj) ==
    IF obj # NoObj /\ has_userprofile(s)
       /\ user_type(s) = "employer" /\ s = obj.user
    THEN TRUE
    ELSE has_perm(s, "companies.view_company") \/ has_perm(s, "companies.change_company")

\* CompanyAdmin.has_change_permission
CompanyAdmin_has_change_permission(s, obj) ==
    IF obj # NoObj /\ has_userprofile(s)
       /\ user_type(s) = "employer" /\ s = obj.user
    THEN TRUE
    ELSE has_perm(s, "companies.change_company")

\* CompanyAdmin.has_delete_permission
CompanyAdmin_has_delete_permission(s, obj) ==
    IF obj # NoObj /\ has_userprofile(s)
       /\ user_type(s) = "employer" /\ s = obj.user
    THEN TRUE
    ELSE has_perm(s, "companies.delete_company")

\* JobAdmin.get_queryset
JobAdmin_get_queryset(s) ==
    IF has_userprofile(s) /\ user_type(s) = "employer" /\ ~users[s].is_superuser
    THEN {j \in jobs : job_owner(j) = s}
    ELSE jobs

\* JobAdmin.has_view_permission
JobAdmin_has_view_permission(s, obj) ==
    IF obj # NoObj /\ has_userprofile(s)
       /\ user_type(s) = "employer" /\ s = job_owner(obj)
    THEN TRUE
    ELSE has_perm(s, "jobs.view_job") \/ has_perm(s, "jobs.change_job")

\* JobAdmin.has_change_permission
JobAdmin_has_change_permission(s, obj) ==
    IF obj # NoObj /\ has_userprofile(s)
       /\ user_type(s) = "employer" /\ s = job_owner(obj)
    THEN TRUE
    ELSE has_perm(s, "jobs.change_job")

\* JobAdmin.has_delete_permission
JobAdmin_has_delete_permission(s, obj) ==
    IF obj # NoObj /\ has_userprofile(s)
       /\ user_type(s) = "employer" /\ s = job_owner(obj)
    THEN TRUE
    ELSE has_perm(s, "jobs.delete_job")

\* ApplicationAdmin.get_queryset
ApplicationAdmin_get_queryset(s) ==
    IF has_userprofile(s) /\ user_type(s) = "employer" /\ ~users[s].is_superuser
    THEN {a \in applications : application_owner(a) = s}
    ELSE applications

\* ApplicationAdmin.has_view_permission
ApplicationAdmin_has_view_permission(s, obj) ==
    IF obj # NoObj /\ has_userprofile(s)
       /\ user_type(s) = "employer" /\ s = application_owner(obj)
    THEN TRUE
    ELSE has_perm(s, "jobs.view_application") \/ has_perm(s, "jobs.change_application")

\* ApplicationAdmin.has_change_permission
ApplicationAdmin_has_change_permission(s, obj) ==
    IF obj # NoObj /\ has_userprofile(s)
       /\ user_type(s) = "employer" /\ s = application_owner(obj)
    THEN TRUE
    ELSE has_perm(s, "jobs.change_application")

\* ApplicationAdmin.has_delete_permission
ApplicationAdmin_has_delete_permission(s, obj) ==
    has_perm(s, "jobs.delete_application")

----------------------------------------------------------------------------
(* Initial state: the schema is migrated and the tables are empty but for  *)
(* four registered accounts: two employers, one job seeker and a superuser *)
(* (whose auto-created profile has no role).                               *)

NoGroups == {}

Account(type, staff, super) ==
    [exists |-> TRUE, has_profile |-> TRUE, user_type |-> type,
     is_staff |-> staff, is_superuser |-> super, is_active |-> TRUE,
     groups |-> NoGroups]

IdleRequest ==
    [pc |-> "idle", user |-> Anonymous, job |-> 0, outcome |-> "none", raced |-> {}]

NoResponse == [op |-> "none", user |-> Anonymous, outcome |-> "none"]

Init ==
    /\ users = [u \in Users |->
                  CASE u = "e1" -> Account("employer", FALSE, FALSE)
                    [] u = "e2" -> Account("employer", FALSE, FALSE)
                    [] u = "a1" -> Account("jobseeker", FALSE, FALSE)
                    [] u = "a2" -> Account("jobseeker", FALSE, FALSE)
                    [] OTHER    -> Account("", TRUE, TRUE)]
    /\ employers_group = NoGroup
    /\ jobseekers_group = NoGroup
    /\ companies = {}
    /\ jobs = {}
    /\ applications = {}
    /\ alerts = {}
    /\ notifications = {}
    /\ next_id = [company |-> 1, job |-> 1, application |-> 1,
                  alert |-> 1, notification |-> 1]
    /\ req = [w \in Workers |-> IdleRequest]
    /\ last = NoResponse
    /\ today = 0
    /\ db_ci \in BOOLEAN

\* the response of a completed request
Respond(op, s, outcome) ==
    last' = [op |-> op, user |-> s, outcome |-> outcome]

----------------------------------------------------------------------------
(* on_delete=CASCADE: the rows that go when the given users, companies,    *)
(* jobs, alerts and applications are deleted.                              *)

cascade_companies(del_users, del_companies) ==
    {c \in companies : c.id \in del_companies \/ c.user \in del_users}

cascade_jobs(del_users, del_companies, del_jobs) ==
    {j \in jobs : j.id \in del_jobs
        \/ j.company \in {c.id : c \in cascade_companies(del_users, del_companies)}}

cascade_alerts(del_users, del_alerts) ==
    {a \in alerts : a.id \in del_alerts \/ a.user \in del_users}

cascade_applications(del_users, del_companies, del_jobs, del_applications) ==
    {a \in applications : a.id \in del_applications \/ a.applicant \in del_users
        \/ a.job \in {j.id : j \in cascade_jobs(del_users, del_companies, del_jobs)}}

cascade_notifications(del_users, del_companies, del_jobs, del_alerts) ==
    {n \in notifications : n.user \in del_users
        \/ n.job \in {j.id : j \in cascade_jobs(del_users, del_companies, del_jobs)}
        \/ n.job_alert \in {a.id : a \in cascade_alerts(del_users, del_alerts)}}

\* Model.delete() / QuerySet.delete() with the cascade of the foreign keys
Delete(del_users, del_companies, del_jobs, del_alerts, del_applications) ==
    /\ companies' = companies \ cascade_companies(del_users, del_companies)
    /\ jobs' = jobs \ cascade_jobs(del_users, del_companies, del_jobs)
    /\ alerts' = alerts \ cascade_alerts(del_users, del_alerts)
    /\ applications' = applications \
           cascade_applications(del_users, del_companies, del_jobs, del_applications)
    /\ notifications' = notifications \
           cascade_notifications(del_users, del_companies, del_jobs, del_alerts)

----------------------------------------------------------------------------
(* Form validation.  Salaries are in hundredths of the currency unit and   *)
(* dates in days.                                                          *)

TwoYears == 730
MaxSalary == 999999999
MinTitleLen == 3
MaxTitleLen == 200
MinTextLen == 10
MinLocationLen == 2
MaxAlertFieldLen == 100
MinKeywordLen == 2
MinNameLen == 2

Digits == {"0","1","2","3","4","5","6","7","8","9"}

\* a character matched by the regular expression class \w
is_word_char(c) ==
    \/ \E i \in 1..26 : UpperCase[i] = c \/ LowerCase[i] = c
    \/ c \in Digits
    \/ c = "_"

\* re.search(r'\bword\b', s)
search_word(s, word) ==
    \E i \in 0..(Len(s) - Len(word)) :
        /\ SubSeq(s, i + 1, i + Len(word)) = word
        /\ (i = 0 \/ ~is_word_char(s[i]))
        /\ (i + Len(word) = Len(s) \/ ~is_word_char(s[i + Len(word) + 1]))

InappropriateWords == {<<"s","p","a","m">>, <<"s","c","a","m">>, <<"f","a","k","e">>}

\* JobForm.clean_title
JobForm_clean_title(title) ==
    /\ strip(title) # <<>>
    /\ Len(strip(title)) >= MinTitleLen
    /\ Len(strip(title)) <= MaxTitleLen
    /\ \A w \in InappropriateWords : ~search_word(lower(strip(title)), w)

\* JobForm.clean_description
JobForm_clean_description(description) ==
    strip(description) # <<>> /\ Len(strip(description)) >= MinTextLen

\* JobForm.clean_location
JobForm_clean_location(location) ==
    strip(location) # <<>> /\ Len(strip(location)) >= MinLocationLen

\* JobForm.clean_deadline
JobForm_clean_deadline(deadline) ==
    ~(deadline <= today) /\ ~(deadline > today + TwoYears)

\* JobForm.clean_salary: the two tests are skipped when the value is falsy (zero)
JobForm_clean_salary(salary) ==
    IF salary # 0 THEN ~(salary <= 0) /\ ~(salary > MaxSalary) ELSE TRUE

\* Job.clean
Job_clean(deadline) == ~(deadline <= today)

\* JobForm.is_valid() without the two tests of the deadline
JobForm_is_valid_any_deadline(title, description, location, salary, deadline) ==
    /\ JobForm_clean_title(title)
    /\ JobForm_clean_description(description)
    /\ JobForm_clean_location(location)
    /\ JobForm_clean_salary(salary)

\* JobForm.is_valid(): the field cleaners, then the model's clean()
JobForm_is_valid(title, description, location, salary, deadline) ==
    /\ JobForm_clean_title(title)
    /\ JobForm_clean_description(description)
    /\ JobForm_clean_location(location)
    /\ JobForm_clean_salary(salary)
    /\ JobForm_clean_deadline(deadline)
    /\ Job_clean(deadline)

\* Job.is_active
Job_is_active(job) == job.deadline > today

AlertKeywordChars == {" ", "-", "+", "#", "."}

\* JobAlertForm.clean_keyword
JobAlertForm_clean_keyword(keyword) ==
    /\ strip(keyword) # <<>>
    /\ Len(strip(keyword)) >= MinKeywordLen
    /\ Len(strip(keyword)) <= MaxAlertFieldLen
    /\ \A i \in 1..Len(strip(keyword)) :
          LET c == strip(keyword)[i] IN
          (is_word_char(c) /\ c # "_") \/ c \in AlertKeywordChars

\* JobAlertForm.clean_location
JobAlertForm_clean_location(location) ==
    /\ strip(location) # <<>>
    /\ Len(strip(location)) >= MinLocationLen
    /\ Len(strip(location)) <= MaxAlertFieldLen

\* JobAlertForm.is_valid()
JobAlertForm_is_valid(keyword, location) ==
    JobAlertForm_clean_keyword(keyword) /\ JobAlertForm_clean_location(location)

\* CompanyProfileForm.clean_name
CompanyProfileForm_clean_name(name) ==
    strip(name) # <<>> /\ Len(strip(name)) >= MinNameLen

\* Application.STATUS_CHOICES
STATUS_CHOICES == {"applied", "under_review", "shortlisted", "rejected"}

----------------------------------------------------------------------------
(* Alert matching engine (jobs/signals.py).                                *)

\* matching_alerts: keyword__icontains=job.title, location__icontains=job.location
matching_alerts(job) ==
    {a \in alerts : icontains(a.keyword, job.title) /\ icontains(a.location, job.location)}

\* keyword_matches: keyword__icontains=job.title | keyword__in=job.title.split()
keyword_matches(job) ==
    {a \in alerts : icontains(a.keyword, job.title)}
      \cup {a \in alerts : exact_in(a.keyword, {strip(k) : k \in split(job.title)})}

\* location_matches: location__icontains=job.location
location_matches(job) ==
    {a \in alerts : icontains(a.location, job.location)}

\* all_matches: the union of the three candidate queries, distinct
all_matches(job) ==
    matching_alerts(job) \cup keyword_matches(job) \cup location_matches(job)

\* keyword_match in the loop of check_job_alerts
keyword_match(alert, job) ==
    \/ contains(lower(job.title), lower(alert.keyword))
    \/ contains(lower(job.description), lower(alert.keyword))
    \/ \E word \in split(alert.keyword) : contains(lower(job.title), lower(word))

\* location_match in the loop of check_job_alerts
location_match(alert, job) ==
    \/ contains(lower(job.location), lower(alert.location))
    \/ contains(lower(alert.location), lower(job.location))

\* the loop notifying on either part of the match alone
notified_alerts_either_part(job) ==
    {a \in all_matches(job) : keyword_match(a, job) \/ location_match(a, job)}

\* the alerts for which the loop calls send_job_alert_notification
notified_alerts(job) ==
    {a \in all_matches(job) : keyword_match(a, job) /\ location_match(a, job)}

\* send_job_alert_notification: the JobAlertNotification row it creates; the
\* rows of one fan-out take consecutive primary keys in the order of the loop
\* (JobAlert.Meta.ordering, newest alert first)
send_job_alert_notification(alert, job, matched) ==
    [id |-> next_id.notification + Cardinality({b \in matched : b.id > alert.id}),
     user |-> alert.user, job |-> job.id, job_alert |-> alert.id, is_read |-> FALSE]

\* the receiver without its test of created
check_job_alerts_on_every_save(job, created) ==
    {send_job_alert_notification(a, job, notified_alerts(job)) :
        a \in notified_alerts(job)}

\* check_job_alerts, the post_save receiver of Job: the rows it creates
check_job_alerts(job, created) ==
    IF ~created THEN {}
    ELSE {send_job_alert_notification(a, job, notified_alerts(job)) :
             a \in notified_alerts(job)}

\* Job.save() followed by the post_save signal
post_save_Job(job, created) ==
    /\ notifications' = notifications \cup check_job_alerts(job, created)
    /\ next_id' = [next_id EXCEPT
          !.job = IF created THEN @ + 1 ELSE @,
          !.notification = @ + Cardinality(check_job_alerts(job, created))]

----------------------------------------------------------------------------
(* Employer-facing views.                                                  *)

\* Company.objects.filter(user=s)
companies_of(s) == {c \in companies : c.user = s}

\* CompanyProfileView.post never looking for the employer's company: every
\* valid submission creates one
CompanyProfileView_post_always_creates(s, name) ==
    LET gate == EmployerRequiredMixin(s) IN
    IF gate # "pass" \/ ~CompanyProfileForm_clean_name(name) THEN
        /\ Respond("CompanyProfileView", s, IF gate # "pass" THEN gate ELSE "invalid")
        /\ UNCHANGED <<users, employers_group, jobseekers_group, companies, jobs,
                       applications, alerts, notifications, next_id, req, today, db_ci>>
    ELSE
        /\ companies' = companies \cup
              {[id |-> next_id.company, user |-> s, name |-> strip(name)]}
        /\ next_id' = [next_id EXCEPT !.company = @ + 1]
        /\ Respond("CompanyProfileView", s, "created")
        /\ UNCHANGED <<users, employers_group, jobseekers_group, jobs,
                       applications, alerts, notifications, req, today, db_ci>>

\* CompanyProfileView.post
CompanyProfileView_post(s, name) ==
    LET gate == EmployerRequiredMixin(s)
        own  == companies_of(s)
    IN
    IF gate # "pass" THEN
        /\ Respond("CompanyProfileView", s, gate)
        /\ UNCHANGED <<users, employers_group, jobseekers_group, companies, jobs,
                       applications, alerts, notifications, next_id, req, today, db_ci>>
    ELSE IF Cardinality(own) > 1 THEN
        \* Company.objects.get raises MultipleObjectsReturned
        /\ Respond("CompanyProfileView", s, "error")
        /\ UNCHANGED <<users, employers_group, jobseekers_group, companies, jobs,
                       applications, alerts, notifications, next_id, req, today, db_ci>>
    ELSE IF ~CompanyProfileForm_clean_name(name) THEN
        /\ Respond("CompanyProfileView", s, "invalid")
        /\ UNCHANGED <<users, employers_group, jobseekers_group, companies, jobs,
                       applications, alerts, notifications, next_id, req, today, db_ci>>
    ELSE IF own = {} THEN
        /\ companies' = companies \cup
              {[id |-> next_id.company, user |-> s, name |-> strip(name)]}
        /\ next_id' = [next_id EXCEPT !.company = @ + 1]
        /\ Respond("CompanyProfileView", s, "created")
        /\ UNCHANGED <<users, employers_group, jobseekers_group, jobs,
                       applications, alerts, notifications, req, today, db_ci>>
    ELSE
        LET company == CHOOSE c \in own : TRUE IN
        /\ companies' = (companies \ {company}) \cup
              {[company EXCEPT !.user = s, !.name = strip(name)]}
        /\ Respond("CompanyProfileView", s, "updated")
        /\ UNCHANGED <<users, employers_group, jobseekers_group, jobs,
                       applications, alerts, notifications, next_id, req, today, db_ci>>

\* JobCreateView with Company.objects.first() in place of
\* Company.objects.get(user=self.request.user)
JobCreateView_any_company(s, title, description, location, salary, deadline) ==
    LET gate == EmployerRequiredMixin(s)
        job  == [id |-> next_id.job, company |-> (CHOOSE c \in companies : TRUE).id,
                 title |-> strip(title), description |-> strip(description),
                 location |-> strip(location), salary |-> salary,
                 deadline |-> deadline]
    IN
    IF gate # "pass" THEN
        /\ Respond("JobCreateView", s, gate)
        /\ UNCHANGED <<users, employers_group, jobseekers_group, companies, jobs,
                       applications, alerts, notifications, next_id, req, today, db_ci>>
    ELSE IF ~JobForm_is_valid(title, description, location, salary, deadline) THEN
        /\ Respond("JobCreateView", s, "invalid")
        /\ UNCHANGED <<users, employers_group, jobseekers_group, companies, jobs,
                       applications, alerts, notifications, next_id, req, today, db_ci>>
    ELSE IF companies = {} THEN
        /\ Respond("JobCreateView", s, "no_company")
        /\ UNCHANGED <<users, employers_group, jobseekers_group, companies, jobs,
                       applications, alerts, notifications, next_id, req, today, db_ci>>
    ELSE
        /\ jobs' = jobs \cup {job}
        /\ post_save_Job(job, TRUE)
        /\ Respond("JobCreateView", s, "ok")
        /\ UNCHANGED <<users, employers_group, jobseekers_group, companies,
                       applications, alerts, req, today, db_ci>>

\* JobCreateView (EmployerRequiredMixin, CreateView.post, form_valid)
JobCreateView(s, title, description, location, salary, deadline) ==
    LET gate == EmployerRequiredMixin(s)
        own  == companies_of(s)
        job  == [id |-> next_id.job, company |-> (CHOOSE c \in own : TRUE).id,
                 title |-> strip(title), description |-> strip(description),
                 location |-> strip(location), salary |-> salary,
                 deadline |-> deadline]
    IN
    IF gate # "pass" THEN
        /\ Respond("JobCreateView", s, gate)
        /\ UNCHANGED <<users, employers_group, jobseekers_group, companies, jobs,
                       applications, alerts, notifications, next_id, req, today, db_ci>>
    ELSE IF ~JobForm_is_valid(title, description, location, salary, deadline) THEN
        /\ Respond("JobCreateView", s, "invalid")
        /\ UNCHANGED <<users, employers_group, jobseekers_group, companies, jobs,
                       applications, alerts, notifications, next_id, req, today, db_ci>>
    ELSE IF own = {} THEN
        \* Company.DoesNotExist: redirect to the company profile page
        /\ Respond("JobCreateView", s, "no_company")
        /\ UNCHANGED <<users, employers_group, jobseekers_group, companies, jobs,
                       applications, alerts, notifications, next_id, req, today, db_ci>>
    ELSE IF Cardinality(own) > 1 THEN
        \* Company.objects.get raises MultipleObjectsReturned
        /\ Respond("JobCreateView", s, "error")
        /\ UNCHANGED <<users, employers_group, jobseekers_group, companies, jobs,
                       applications, alerts, notifications, next_id, req, today, db_ci>>
    ELSE
        /\ jobs' = jobs \cup {job}
        /\ post_save_Job(job, TRUE)
        /\ Respond("JobCreateView", s, "ok")
        /\ UNCHANGED <<users, employers_group, jobseekers_group, companies,
                       applications, alerts, req, today, db_ci>>

\* JobUpdateView.get_queryset
JobUpdateView_get_queryset(s) == {j \in jobs : job_owner(j) = s}

\* JobUpdateView (EmployerRequiredMixin, UpdateView.post, form_valid)
JobUpdateView(s, pk, title, description, location, salary, deadline) ==
    LET gate == EmployerRequiredMixin(s)
        old  == GetRow(JobUpdateView_get_queryset(s), pk)
        job  == [id |-> pk, company |-> old.company,
                 title |-> strip(title), description |-> strip(description),
                 location |-> strip(location), salary |-> salary,
                 deadline |-> deadline]
    IN
    IF gate # "pass" THEN
        /\ Respond("JobUpdateView", s, gate)
        /\ UNCHANGED <<users, employers_group, jobseekers_group, companies, jobs,
                       applications, alerts, notifications, next_id, req, today, db_ci>>
    ELSE IF old = NoObj THEN
        /\ Respond("JobUpdateView", s, "notfound")
        /\ UNCHANGED <<users, employers_group, jobseekers_group, companies, jobs,
                       applications, alerts, notifications, next_id, req, today, db_ci>>
    ELSE IF ~JobForm_is_valid(title, description, location, salary, deadline) THEN
        /\ Respond("JobUpdateView", s, "invalid")
        /\ UNCHANGED <<users, employers_group, jobseekers_group, companies, jobs,
                       applications, alerts, notifications, next_id, req, today, db_ci>>
    ELSE
        /\ jobs' = (jobs \ {old}) \cup {job}
        /\ post_save_Job(job, FALSE)
        /\ Respond("JobUpdateView", s, "ok")
        /\ UNCHANGED <<users, employers_group, jobseekers_group, companies,
                       applications, alerts, req, today, db_ci>>

\* JobDeleteView.get_queryset
JobDeleteView_get_queryset(s) == {j \in jobs : job_owner(j) = s}

\* JobDeleteView (EmployerRequiredMixin, DeleteView.post)
JobDeleteView(s, pk) ==
    LET gate == EmployerRequiredMixin(s)
        old  == GetRow(JobDeleteView_get_queryset(s), pk)
    IN
    IF gate # "pass" THEN
        /\ Respond("JobDeleteView", s, gate)
        /\ UNCHANGED <<users, employers_group, jobseekers_group, companies, jobs,
                       applications, alerts, notifications, next_id, req, today, db_ci>>
    ELSE IF old = NoObj THEN
        /\ Respond("JobDeleteView", s, "notfound")
        /\ UNCHANGED <<users, employers_group, jobseekers_group, companies, jobs,
                       applications, alerts, notifications, next_id, req, today, db_ci>>
    ELSE
        /\ Delete({}, {}, {pk}, {}, {})
        /\ Respond("JobDeleteView", s, "ok")
        /\ UNCHANGED <<users, employers_group, jobseekers_group, next_id, req,
                       today, db_ci>>

----------------------------------------------------------------------------
(* Job-seeker-facing views.                                                *)

\* create_job_alert (POST)
create_job_alert(s, keyword, location) ==
    LET gate == jobseeker_required(s) IN
    IF gate # "pass" THEN
        /\ Respond("create_job_alert", s, gate)
        /\ UNCHANGED <<users, employers_group, jobseekers_group, companies, jobs,
                       applications, alerts, notifications, next_id, req, today, db_ci>>
    ELSE IF ~JobAlertForm_is_valid(keyword, location) THEN
        /\ Respond("create_job_alert", s, "invalid")
        /\ UNCHANGED <<users, employers_group, jobseekers_group, companies, jobs,
                       applications, alerts, notifications, next_id, req, today, db_ci>>
    ELSE
        /\ alerts' = alerts \cup
              {[id |-> next_id.alert, user |-> s,
                keyword |-> strip(keyword), location |-> strip(location)]}
        /\ next_id' = [next_id EXCEPT !.alert = @ + 1]
        /\ Respond("create_job_alert", s, "ok")
        /\ UNCHANGED <<users, employers_group, jobseekers_group, companies, jobs,
                       applications, notifications, req, today, db_ci>>

\* delete_job_alert
delete_job_alert(s, pk) ==
    LET gate  == jobseeker_required(s)
        alert == GetRow({a \in alerts : a.user = s}, pk)
    IN
    IF gate # "pass" THEN
        /\ Respond("delete_job_alert", s, gate)
        /\ UNCHANGED <<users, employers_group, jobseekers_group, companies, jobs,
                       applications, alerts, notifications, next_id, req, today, db_ci>>
    ELSE IF alert = NoObj THEN
        /\ Respond("delete_job_alert", s, "notfound")
        /\ UNCHANGED <<users, employers_group, jobseekers_group, companies, jobs,
                       applications, alerts, notifications, next_id, req, today, db_ci>>
    ELSE
        /\ Delete({}, {}, {}, {pk}, {})
        /\ Respond("delete_job_alert", s, "ok")
        /\ UNCHANGED <<users, employers_group, jobseekers_group, next_id, req,
                       today, db_ci>>

\* NotificationListView.paginate_by
paginate_by == 20

\* NotificationListView.get_queryset
NotificationListView_get_queryset(s) == {n \in notifications : n.user = s}

\* the number of pages of the paginated list (an empty list has one page)
num_pages(count) ==
    IF count = 0 THEN 1 ELSE (count + paginate_by - 1) \div paginate_by

\* the rows on a page; Meta.ordering is newest first, and the rows of one
\* fan-out are created in increasing primary key
object_list(s, page) ==
    {n \in NotificationListView_get_queryset(s) :
        LET rank == Cardinality({m \in NotificationListView_get_queryset(s) :
                                    m.id >= n.id})
        IN  (page - 1) * paginate_by < rank /\ rank <= page * paginate_by}

\* the view marking only the rows of the page it displays
NotificationListView_marks_page(s, page) ==
    LET gate == JobSeekerRequiredMixin(s) IN
    IF gate # "pass" THEN
        /\ Respond("NotificationListView", s, gate)
        /\ UNCHANGED <<users, employers_group, jobseekers_group, companies, jobs,
                       applications, alerts, notifications, next_id, req, today, db_ci>>
    ELSE IF page \notin 1..num_pages(Cardinality(NotificationListView_get_queryset(s))) THEN
        /\ Respond("NotificationListView", s, "notfound")
        /\ UNCHANGED <<users, employers_group, jobseekers_group, companies, jobs,
                       applications, alerts, notifications, next_id, req, today, db_ci>>
    ELSE
        /\ notifications' =
              {IF n \in object_list(s, page) THEN [n EXCEPT !.is_read = TRUE] ELSE n :
                  n \in notifications}
        /\ Respond("NotificationListView", s, "ok")
        /\ UNCHANGED <<users, employers_group, jobseekers_group, companies, jobs,
                       applications, alerts, next_id, req, today, db_ci>>

\* NotificationListView (get_queryset, get_context_data): the page is
\* resolved by super().get_context_data, which answers 404 for a page the
\* list does not have, before the rows are marked read
NotificationListView(s, page) ==
    LET gate == JobSeekerRequiredMixin(s) IN
    IF gate # "pass" THEN
        /\ Respond("NotificationListView", s, gate)
        /\ UNCHANGED <<users, employers_group, jobseekers_group, companies, jobs,
                       applications, alerts, notifications, next_id, req, today, db_ci>>
    ELSE IF page \notin 1..num_pages(Cardinality(NotificationListView_get_queryset(s))) THEN
        /\ Respond("NotificationListView", s, "notfound")
        /\ UNCHANGED <<users, employers_group, jobseekers_group, companies, jobs,
                       applications, alerts, notifications, next_id, req, today, db_ci>>
    ELSE
        /\ notifications' =
              {IF n.user = s /\ ~n.is_read THEN [n EXCEPT !.is_read = TRUE] ELSE n :
                  n \in notifications}
        /\ Respond("NotificationListView", s, "ok")
        /\ UNCHANGED <<users, employers_group, jobseekers_group, companies, jobs,
                       applications, alerts, next_id, req, today, db_ci>>

\* the lookup without user=request.user
mark_notification_read_any_owner(s, pk) ==
    LET gate == jobseeker_required(s)
        notification == GetRow(notifications, pk)
    IN
    IF gate # "pass" THEN
        /\ Respond("mark_notification_read", s, gate)
        /\ UNCHANGED <<users, employers_group, jobseekers_group, companies, jobs,
                       applications, alerts, notifications, next_id, req, today, db_ci>>
    ELSE IF notification = NoObj THEN
        /\ Respond("mark_notification_read", s, "notfound")
        /\ UNCHANGED <<users, employers_group, jobseekers_group, companies, jobs,
                       applications, alerts, notifications, next_id, req, today, db_ci>>
    ELSE
        /\ notifications' = (notifications \ {notification}) \cup
              {[notification EXCEPT !.is_read = TRUE]}
        /\ Respond("mark_notification_read", s, "ok")
        /\ UNCHANGED <<users, employers_group, jobseekers_group, companies, jobs,
                       applications, alerts, next_id, req, today, db_ci>>

\* mark_notification_read
mark_notification_read(s, pk) ==
    LET gate == jobseeker_required(s)
        notification == GetRow({n \in notifications : n.user = s}, pk)
    IN
    IF gate # "pass" THEN
        /\ Respond("mark_notification_read", s, gate)
        /\ UNCHANGED <<users, employers_group, jobseekers_group, companies, jobs,
                       applications, alerts, notifications, next_id, req, today, db_ci>>
    ELSE IF notification = NoObj THEN
        /\ Respond("mark_notification_read", s, "notfound")
        /\ UNCHANGED <<users, employers_group, jobseekers_group, companies, jobs,
                       applications, alerts, notifications, next_id, req, today, db_ci>>
    ELSE
        /\ notifications' = (notifications \ {notification}) \cup
              {[notification EXCEPT !.is_read = TRUE]}
        /\ Respond("mark_notification_read", s, "ok")
        /\ UNCHANGED <<users, employers_group, jobseekers_group, companies, jobs,
                       applications, alerts, next_id, req, today, db_ci>>

\* update_application_status without the test of the job's owner
update_application_status_any_employer(s, pk, status) ==
    LET gate == employer_required(s)
        application == GetRow(applications, pk)
    IN
    IF gate # "pass" \/ application = NoObj \/ status \notin STATUS_CHOICES THEN
        /\ Respond("update_application_status", s,
                   IF gate # "pass" THEN gate
                   ELSE IF application = NoObj THEN "notfound" ELSE "invalid")
        /\ UNCHANGED <<users, employers_group, jobseekers_group, companies, jobs,
                       applications, alerts, notifications, next_id, req, today, db_ci>>
    ELSE
        /\ applications' = (applications \ {application}) \cup
              {[application EXCEPT !.status = status]}
        /\ Respond("update_application_status", s, "ok")
        /\ UNCHANGED <<users, employers_group, jobseekers_group, companies, jobs,
                       alerts, notifications, next_id, req, today, db_ci>>

\* update_application_status (POST)
update_application_status(s, pk, status) ==
    LET gate == employer_required(s)
        application == GetRow(applications, pk)
    IN
    IF gate # "pass" THEN
        /\ Respond("update_application_status", s, gate)
        /\ UNCHANGED <<users, employers_group, jobseekers_group, companies, jobs,
                       applications, alerts, notifications, next_id, req, today, db_ci>>
    ELSE IF application = NoObj THEN
        /\ Respond("update_application_status", s, "notfound")
        /\ UNCHANGED <<users, employers_group, jobseekers_group, companies, jobs,
                       applications, alerts, notifications, next_id, req, today, db_ci>>
    ELSE IF application_owner(application) # s THEN
        /\ Respond("update_application_status", s, "forbidden")
        /\ UNCHANGED <<users, employers_group, jobseekers_group, companies, jobs,
                       applications, alerts, notifications, next_id, req, today, db_ci>>
    ELSE IF status \notin STATUS_CHOICES THEN
        /\ Respond("update_application_status", s, "invalid")
        /\ UNCHANGED <<users, employers_group, jobseekers_group, companies, jobs,
                       applications, alerts, notifications, next_id, req, today, db_ci>>
    ELSE
        /\ applications' = (applications \ {application}) \cup
              {[application EXCEPT !.status = status]}
        /\ Respond("update_application_status", s, "ok")
        /\ UNCHANGED <<users, employers_group, jobseekers_group, companies, jobs,
                       alerts, notifications, next_id, req, today, db_ci>>

----------------------------------------------------------------------------
(* apply_for_job.  A worker runs the view in two steps: the checks up to   *)
(* the form validation, then application.save(); requests of other workers *)
(* may run between the two.                                                *)

\* the table without its unique constraint
unique_together_unenforced(job, applicant) == TRUE

\* Application.Meta.unique_together = ['job', 'applicant'], checked by the
\* database on INSERT
unique_together(job, applicant) ==
    ~\E a \in applications : a.job = job /\ a.applicant = applicant

\* Application.objects.filter(job=job, applicant=request.user).exists()
already_applied(job, applicant) ==
    \E a \in applications : a.job = job /\ a.applicant = applicant

\* the requests that are between their check and their save for the same pair
in_flight(s, pk) ==
    {v \in Workers : req[v].pc = "saving" /\ req[v].user = s /\ req[v].job = pk}

apply_finish(w, s, pk, outcome) ==
    /\ req' = [req EXCEPT ![w] = [pc |-> "done", user |-> s, job |-> pk,
                                  outcome |-> outcome, raced |-> {}]]
    /\ Respond("apply_for_job", s, outcome)
    /\ UNCHANGED <<users, employers_group, jobseekers_group, companies, jobs,
                   applications, alerts, notifications, next_id, today, db_ci>>

\* apply_for_job, from the decorator to form.is_valid()
apply_for_job_check(w, s, pk, form_is_valid) ==
    LET gate == jobseeker_required(s)
        job  == GetRow(jobs, pk)
    IN
    /\ req[w].pc # "saving"
    /\ IF gate # "pass" THEN apply_finish(w, s, pk, gate)
       ELSE IF job = NoObj THEN apply_finish(w, s, pk, "notfound")
       ELSE IF ~Job_is_active(job) THEN apply_finish(w, s, pk, "expired")
       ELSE IF already_applied(pk, s) THEN apply_finish(w, s, pk, "already")
       ELSE IF ~form_is_valid THEN apply_finish(w, s, pk, "invalid")
       ELSE
         /\ req' = [v \in Workers |->
               IF v = w THEN [pc |-> "saving", user |-> s, job |-> pk,
                              outcome |-> "none", raced |-> in_flight(s, pk)]
               ELSE IF v \in in_flight(s, pk)
                    THEN [req[v] EXCEPT !.raced = @ \cup {w}]
                    ELSE req[v]]
         /\ UNCHANGED <<users, employers_group, jobseekers_group, companies, jobs,
                        applications, alerts, notifications, next_id, last, today, db_ci>>

\* apply_for_job, application.save() and the response
apply_for_job_save(w) ==
    LET s  == req[w].user
        pk == req[w].job
    IN
    /\ req[w].pc = "saving"
    /\ IF unique_together(pk, s) /\ GetRow(jobs, pk) # NoObj /\ users[s].exists
       THEN
         /\ applications' = applications \cup
               {[id |-> next_id.application, job |-> pk, applicant |-> s,
                 status |-> "applied"]}
         /\ next_id' = [next_id EXCEPT !.application = @ + 1]
         /\ req' = [req EXCEPT ![w].pc = "done", ![w].outcome = "success"]
         /\ Respond("apply_for_job", s, "success")
       ELSE
         \* IntegrityError, caught by the view and reported as an error message
         /\ req' = [req EXCEPT ![w].pc = "done", ![w].outcome = "error"]
         /\ Respond("apply_for_job", s, "error")
         /\ UNCHANGED <<applications, next_id>>
    /\ UNCHANGED <<users, employers_group, jobseekers_group, companies, jobs,
                   alerts, notifications, today, db_ci>>

\* the passing of a day
Tick ==
    /\ today < MaxDay
    /\ today' = today + 1
    /\ UNCHANGED <<users, employers_group, jobseekers_group, companies, jobs,
                   applications, alerts, notifications, next_id, req, last, db_ci>>

----------------------------------------------------------------------------
(* Management functions of admin.py and the commands that call them.       *)

\* Group.objects.get_or_create(name=...) followed by the `if created:` block
get_or_create_group(group, permissions) ==
    IF group.exists THEN group ELSE [exists |-> TRUE, permissions |-> permissions]

\* setup_employer_permissions
setup_employer_permissions ==
    /\ employers_group' = get_or_create_group(employers_group, permissions_to_add)
    /\ UNCHANGED <<users, jobseekers_group, companies, jobs, applications, alerts,
                   notifications, next_id, req, last, today, db_ci>>

\* setup_admin_permissions: Command.handle, with or without --reset
setup_admin_permissions(reset) ==
    /\ employers_group' =
          get_or_create_group(IF reset THEN NoGroup ELSE employers_group,
                              permissions_to_add)
    /\ jobseekers_group' =
          get_or_create_group(IF reset THEN NoGroup ELSE jobseekers_group,
                              jobseeker_permissions_to_add)
    /\ users' = IF reset
                THEN [u \in Users |-> [users[u] EXCEPT !.groups = {}]]
                ELSE users
    /\ UNCHANGED <<companies, jobs, applications, alerts, notifications,
                   next_id, req, last, today, db_ci>>

\* grant_employer_admin_access
grant_employer_admin_access(u) ==
    /\ users[u].exists
    /\ IF has_userprofile(u) /\ user_type(u) = "employer"
       THEN /\ users' = [users EXCEPT ![u].is_staff = TRUE,
                                      ![u].groups = @ \cup {"Employers"}]
            /\ employers_group' = get_or_create_group(employers_group, {})
       ELSE UNCHANGED <<users, employers_group>>
    /\ UNCHANGED <<jobseekers_group, companies, jobs, applications, alerts,
                   notifications, next_id, req, last, today, db_ci>>

\* revoke_employer_admin_access
revoke_employer_admin_access(u) ==
    /\ users[u].exists
    /\ IF has_userprofile(u) /\ user_type(u) = "employer"
       THEN users' = [users EXCEPT ![u].is_staff = FALSE,
                                   ![u].groups = IF employers_group.exists
                                                 THEN @ \ {"Employers"} ELSE @]
       ELSE UNCHANGED users
    /\ UNCHANGED <<employers_group, jobseekers_group, companies, jobs, applications,
                   alerts, notifications, next_id, req, last, today, db_ci>>

----------------------------------------------------------------------------
(* The admin change and delete views of the three registered ModelAdmins   *)
(* (POST).  The view looks the object up in get_queryset, asks the         *)
(* permission hook, validates the form and saves; the delete view also     *)
(* asks the delete hook of every registered model it cascades to.          *)

AdminUnchanged ==
    UNCHANGED <<users, employers_group, jobseekers_group, companies, jobs,
                applications, alerts, notifications, next_id, req, today, db_ci>>

\* CompanyAdmin.get_form: the choices of the `user` field
CompanyAdmin_user_choices(s) ==
    IF has_userprofile(s) /\ user_type(s) = "employer" /\ ~users[s].is_superuser
    THEN {s}
    ELSE {u \in Users : users[u].exists /\ users[u].has_profile
                           /\ users[u].user_type = "employer"}

\* Company.clean
Company_clean(user) ==
    users[user].has_profile /\ users[user].user_type = "employer"

\* CompanyAdmin: the change view
CompanyAdmin_change_view(s, pk, name, user) ==
    LET obj == GetRow(CompanyAdmin_get_queryset(s), pk) IN
    IF ~admin_site_has_permission(s) THEN
        Respond("CompanyAdmin.change", s, "login") /\ AdminUnchanged
    ELSE IF obj = NoObj THEN
        Respond("CompanyAdmin.change", s, "notfound") /\ AdminUnchanged
    ELSE IF ~CompanyAdmin_has_change_permission(s, obj) THEN
        Respond("CompanyAdmin.change", s, "forbidden") /\ AdminUnchanged
    ELSE IF user \notin CompanyAdmin_user_choices(s) \/ ~Company_clean(user)
            \/ strip(name) = <<>> THEN
        Respond("CompanyAdmin.change", s, "invalid") /\ AdminUnchanged
    ELSE
        /\ companies' = (companies \ {obj}) \cup
              {[obj EXCEPT !.user = user, !.name = strip(name)]}
        /\ Respond("CompanyAdmin.change", s, "ok")
        /\ UNCHANGED <<users, employers_group, jobseekers_group, jobs, applications,
                       alerts, notifications, next_id, req, today, db_ci>>

\* CompanyAdmin: the delete view
CompanyAdmin_delete_view(s, pk) ==
    LET obj == GetRow(CompanyAdmin_get_queryset(s), pk) IN
    IF ~admin_site_has_permission(s) THEN
        Respond("CompanyAdmin.delete", s, "login") /\ AdminUnchanged
    ELSE IF obj = NoObj THEN
        Respond("CompanyAdmin.delete", s, "notfound") /\ AdminUnchanged
    ELSE IF \/ ~CompanyAdmin_has_delete_permission(s, obj)
            \/ \E j \in cascade_jobs({}, {pk}, {}) :
                  ~JobAdmin_has_delete_permission(s, j)
            \/ \E a \in cascade_applications({}, {pk}, {}, {}) :
                  ~ApplicationAdmin_has_delete_permission(s, a) THEN
        Respond("CompanyAdmin.delete", s, "forbidden") /\ AdminUnchanged
    ELSE
        /\ Delete({}, {pk}, {}, {}, {})
        /\ Respond("CompanyAdmin.delete", s, "ok")
        /\ UNCHANGED <<users, employers_group, jobseekers_group, next_id, req,
                       today, db_ci>>

\* JobAdmin: the change view
JobAdmin_change_view(s, pk, title, description, location, salary, deadline) ==
    LET obj == GetRow(JobAdmin_get_queryset(s), pk)
        job == [obj EXCEPT !.title = strip(title),
                           !.description = strip(description),
                           !.location = strip(location),
                           !.salary = salary, !.deadline = deadline]
    IN
    IF ~admin_site_has_permission(s) THEN
        Respond("JobAdmin.change", s, "login") /\ AdminUnchanged
    ELSE IF obj = NoObj THEN
        Respond("JobAdmin.change", s, "notfound") /\ AdminUnchanged
    ELSE IF ~JobAdmin_has_change_permission(s, obj) THEN
        Respond("JobAdmin.change", s, "forbidden") /\ AdminUnchanged
    ELSE IF strip(title) = <<>> \/ strip(description) = <<>>
            \/ strip(location) = <<>> \/ ~Job_clean(deadline) THEN
        Respond("JobAdmin.change", s, "invalid") /\ AdminUnchanged
    ELSE
        /\ jobs' = (jobs \ {obj}) \cup {job}
        /\ post_save_Job(job, FALSE)
        /\ Respond("JobAdmin.change", s, "ok")
        /\ UNCHANGED <<users, employers_group, jobseekers_group, companies,
                       applications, alerts, req, today, db_ci>>

\* JobAdmin: the delete view
JobAdmin_delete_view(s, pk) ==
    LET obj == GetRow(JobAdmin_get_queryset(s), pk) IN
    IF ~admin_site_has_permission(s) THEN
        Respond("JobAdmin.delete", s, "login") /\ AdminUnchanged
    ELSE IF obj = NoObj THEN
        Respond("JobAdmin.delete", s, "notfound") /\ AdminUnchanged
    ELSE IF \/ ~JobAdmin_has_delete_permission(s, obj)
            \/ \E a \in cascade_applications({}, {}, {pk}, {}) :
                  ~ApplicationAdmin_has_delete_permission(s, a) THEN
        Respond("JobAdmin.delete", s, "forbidden") /\ AdminUnchanged
    ELSE
        /\ Delete({}, {}, {pk}, {}, {})
        /\ Respond("JobAdmin.delete", s, "ok")
        /\ UNCHANGED <<users, employers_group, jobseekers_group, next_id, req,
                       today, db_ci>>

\* ApplicationAdmin: the change view (the status field)
ApplicationAdmin_change_view(s, pk, status) ==
    LET obj == GetRow(ApplicationAdmin_get_queryset(s), pk) IN
    IF ~admin_site_has_permission(s) THEN
        Respond("ApplicationAdmin.change", s, "login") /\ AdminUnchanged
    ELSE IF obj = NoObj THEN
        Respond("ApplicationAdmin.change", s, "notfound") /\ AdminUnchanged
    ELSE IF ~ApplicationAdmin_has_change_permission(s, obj) THEN
        Respond("ApplicationAdmin.change", s, "forbidden") /\ AdminUnchanged
    ELSE IF status \notin STATUS_CHOICES THEN
        Respond("ApplicationAdmin.change", s, "invalid") /\ AdminUnchanged
    ELSE
        /\ applications' = (applications \ {obj}) \cup {[obj EXCEPT !.status = status]}
        /\ Respond("ApplicationAdmin.change", s, "ok")
        /\ UNCHANGED <<users, employers_group, jobseekers_group, companies, jobs,
                       alerts, notifications, next_id, req, today, db_ci>>

\* ApplicationAdmin: the delete view
ApplicationAdmin_delete_view(s, pk) ==
    LET obj == GetRow(ApplicationAdmin_get_queryset(s), pk) IN
    IF ~admin_site_has_permission(s) THEN
        Respond("ApplicationAdmin.delete", s, "login") /\ AdminUnchanged
    ELSE IF obj = NoObj THEN
        Respond("ApplicationAdmin.delete", s, "notfound") /\ AdminUnchanged
    ELSE IF ~ApplicationAdmin_has_delete_permission(s, obj) THEN
        Respond("ApplicationAdmin.delete", s, "forbidden") /\ AdminUnchanged
    ELSE
        /\ Delete({}, {}, {}, {}, {pk})
        /\ Respond("ApplicationAdmin.delete", s, "ok")
        /\ UNCHANGED <<users, employers_group, jobseekers_group, next_id, req,
                       today, db_ci>>

\* generate_sample_data --clear --users 0 --jobs 0 --applications 0:
\* Command.handle runs clear_sample_data and then creates nothing
generate_sample_data_clear ==
    LET profiled == {u \in Users : users[u].exists /\ users[u].has_profile}
        deleted  == {u \in Users : users[u].exists /\ ~users[u].is_superuser}
        gone     == profiled \cup deleted
    IN
    /\ companies' = {c \in companies : c.user \notin gone}
    /\ jobs' = {j \in jobs : job_owner(j) \notin gone}
    /\ alerts' = {a \in alerts : a.user \notin gone}
    /\ applications' = {a \in applications :
                           a.applicant \notin gone /\ application_owner(a) \notin gone}
    /\ notifications' = {n \in notifications :
                            n.user \notin gone /\ job_owner(GetRow(jobs, n.job)) \notin gone}
    /\ users' = [u \in Users |->
                   IF u \in deleted
                   THEN [users[u] EXCEPT !.exists = FALSE, !.has_profile = FALSE,
                                         !.user_type = "", !.is_staff = FALSE,
                                         !.groups = {}]
                   ELSE [users[u] EXCEPT !.has_profile = FALSE, !.user_type = ""]]
    /\ UNCHANGED <<employers_group, jobseekers_group, next_id, req, last, today, db_ci>>

----------------------------------------------------------------------------
(* Request inputs.                                                         *)

PythonDeveloper == <<"P","y","t","h","o","n"," ","D","e","v","e","l","o","p","e","r">>
BuildServices == <<"B","u","i","l","d"," ","s","e","r","v","i","c","e","s">>
Remote == <<"R","e","m","o","t","e">>
RemoteWorldwide == <<"R","e","m","o","t","e",","," ","W","o","r","l","d","w","i","d","e">>
Boston == <<"B","o","s","t","o","n">>
python == <<"p","y","t","h","o","n">>
java == <<"j","a","v","a">>
Acme == <<"A","c","m","e">>
Salary == 50000 * 100

CompanyIds == 1..MaxCompanies
JobIds == 1..MaxJobs
AlertIds == 1..MaxAlerts
ApplicationIds == 1..MaxApplications
NotificationIds == 1..(MaxJobs * MaxAlerts)

----------------------------------------------------------------------------
(* The portal as its users see it: views behind each of the four role      *)
(* gates, requested by every kind of subject, each with one valid input.   *)

\* the worker of a specification whose requests do not overlap
OneWorker == {CHOOSE w \in Workers : TRUE}

\* an employer, a job seeker, the superuser (no role) and a visitor
GateSubjects == {"e1", "a1", "su", Anonymous}

Next ==
    \/ \E s \in GateSubjects :
          next_id.company <= MaxCompanies /\ CompanyProfileView_post(s, Acme)
    \/ \E s \in GateSubjects :
          /\ next_id.job <= MaxJobs
          /\ JobCreateView(s, PythonDeveloper, BuildServices, Remote, Salary, 1)
    \/ \E s \in GateSubjects :
          next_id.alert <= MaxAlerts /\ create_job_alert(s, python, Remote)
    \/ \E s \in GateSubjects : NotificationListView(s, 1)
    \/ \E s \in GateSubjects, pk \in ApplicationIds :
          update_application_status(s, pk, "shortlisted")
    \/ \E w \in OneWorker, s \in GateSubjects, pk \in JobIds :
          /\ next_id.application <= MaxApplications
          /\ apply_for_job_check(w, s, pk, TRUE)
    \/ \E w \in OneWorker : apply_for_job_save(w)
    \/ generate_sample_data_clear

Spec == Init /\ [][Next]_vars

----------------------------------------------------------------------------
(* C2: route-level gating fails closed.                                    *)

\* the rows and accounts a request can change
data == <<users, employers_group, jobseekers_group, companies, jobs,
          applications, alerts, notifications, next_id>>

\* role(S): the role tag of the subject's Profile, "none" without a Profile
role_of(s) ==
    IF users[s].has_profile /\ users[s].user_type \in {"employer", "jobseeker"}
    THEN users[s].user_type ELSE "none"

\* What a gated request by s for a capability of role `required` may do.
GateRule(s, required) ==
    /\ (s = Anonymous \/ ~users[s].exists)
          => last'.outcome = "login" /\ last'.user = s /\ UNCHANGED data
    /\ (s # Anonymous /\ users[s].exists /\ role_of(s) # required)
          => last'.outcome = "forbidden" /\ last'.user = s /\ UNCHANGED data
    /\ (~UNCHANGED data \/ \E w \in Workers : req'[w].pc = "saving" /\ req[w].pc # "saving")
          => s # Anonymous /\ users[s].exists /\ role_of(s) = required

\* C2: for every view behind EmployerRequiredMixin, JobSeekerRequiredMixin,
\* employer_required and jobseeker_required, an unauthenticated subject is
\* redirected to the login page, an authenticated subject with another role or
\* without a Profile is answered Forbidden, and the view runs and changes
\* state only for an authenticated subject with the required role.
C2_RouteGatingFailsClosed ==
    [][\A s \in GateSubjects :
        /\ (last'.user = s /\ last'.op = "CompanyProfileView"
               /\ CompanyProfileView_post(s, Acme))
              => GateRule(s, "employer")
        /\ (last'.user = s /\ last'.op = "JobCreateView"
               /\ JobCreateView(s, PythonDeveloper, BuildServices, Remote, Salary, 1))
              => GateRule(s, "employer")
        /\ (last'.user = s /\ last'.op = "create_job_alert"
               /\ create_job_alert(s, python, Remote))
              => GateRule(s, "jobseeker")
        /\ (last'.user = s /\ last'.op = "NotificationListView"
               /\ NotificationListView(s, 1))
              => GateRule(s, "jobseeker")
        /\ (last'.user = s /\ last'.op = "update_application_status"
               /\ \E pk \in ApplicationIds : update_application_status(s, pk, "shortlisted"))
              => GateRule(s, "employer")
        /\ (\E w \in OneWorker : req'[w].user = s /\ req'[w] # req[w]
               /\ \E pk \in JobIds : apply_for_job_check(w, s, pk, TRUE))
              => GateRule(s, "jobseeker")
        /\ (\E w \in OneWorker : req[w].user = s /\ applications' # applications
               /\ apply_for_job_save(w))
              => s # Anonymous /\ users[s].exists /\ role_of(s) = "jobseeker"
      ]_vars

\* C2 witness: the superuser, left without a Profile by the sample-data
\* clearing, was answered Forbidden by a job-seeker view, after an employer
\* passed the employer gate and created a company.
C2_Witness ==
    /\ last.op = "create_job_alert" /\ last.user = "su" /\ last.outcome = "forbidden"
    /\ ~users["su"].has_profile
    /\ next_id.company > 1

----------------------------------------------------------------------------
(* The alert matching engine at work: an employer posts, edits and deletes *)
(* jobs, a job seeker manages alerts and reads the inbox, the superuser    *)
(* edits jobs in the admin.                                                *)

JavaDeveloper == <<"J","a","v","a"," ","D","e","v","e","l","o","p","e","r">>
JavaServices == <<"J","a","v","a"," ","s","e","r","v","i","c","e","s">>

\* title, description, location of the jobs posted
JobInputs ==
    {<<PythonDeveloper, BuildServices, Remote>>,
     <<PythonDeveloper, BuildServices, RemoteWorldwide>>,
     <<PythonDeveloper, JavaServices, Remote>>,
     <<PythonDeveloper, JavaServices, RemoteWorldwide>>}

\* title, description, location a job is edited to
JobEdits == {<<JavaDeveloper, BuildServices, Boston>>}

\* keyword, location of the alerts subscribed
AlertInputs ==
    {<<python, Remote>>, <<java, Boston>>, <<python, RemoteWorldwide>>, <<java, Remote>>}

NextAlerts ==
    \/ next_id.company <= MaxCompanies /\ CompanyProfileView_post("e1", Acme)
    \/ \E j \in JobInputs :
          /\ next_id.job <= MaxJobs
          /\ JobCreateView("e1", j[1], j[2], j[3], Salary, 1)
    \/ \E pk \in JobIds, j \in JobEdits :
          JobUpdateView("e1", pk, j[1], j[2], j[3], Salary, 1)
    \/ \E pk \in JobIds, j \in JobEdits :
          JobAdmin_change_view("su", pk, j[1], j[2], j[3], Salary, 1)
    \/ \E pk \in JobIds : JobDeleteView("e1", pk)
    \/ \E a \in AlertInputs :
          next_id.alert <= MaxAlerts /\ create_job_alert("a1", a[1], a[2])
    \/ \E pk \in AlertIds : delete_job_alert("a1", pk)
    \/ \E page \in 1..2 : NotificationListView("a1", page)
    \/ \E pk \in NotificationIds : mark_notification_read("a1", pk)

SpecAlerts == Init /\ [][NextAlerts]_vars

----------------------------------------------------------------------------
(* The match predicate of the alert contract, written from its statement:  *)
(* keyword inside title or description, or a token of the keyword inside   *)
(* the title; and one location inside the other; all ignoring case.        *)

is_substring_ci(a, b) ==
    \E i \in 0..(Len(b) - Len(a)) :
        \A k \in 1..Len(a) : lower_char(b[i + k]) = lower_char(a[k])

\* the whitespace-delimited tokens of a keyword
keyword_tokens(keyword) ==
    {SubSeq(keyword, p[1], p[2]) :
        p \in {q \in (1..Len(keyword)) \X (1..Len(keyword)) :
                  /\ q[1] <= q[2]
                  /\ \A k \in q[1]..q[2] : keyword[k] # " "
                  /\ (q[1] = 1 \/ keyword[q[1] - 1] = " ")
                  /\ (q[2] = Len(keyword) \/ keyword[q[2] + 1] = " ")}}

SatisfiesMatchPredicate(alert, job) ==
    /\ \/ is_substring_ci(alert.keyword, job.title)
       \/ is_substring_ci(alert.keyword, job.description)
       \/ \E t \in keyword_tokens(alert.keyword) : is_substring_ci(t, job.title)
    /\ \/ is_substring_ci(job.location, alert.location)
       \/ is_substring_ci(alert.location, job.location)

\* the notifications that reference a job and an alert and belong to the owner
notifications_for(store, job, alert) ==
    {n \in store : n.job = job.id /\ n.job_alert = alert.id /\ n.user = alert.user}

\* the job a JobCreateView response of "ok" has just created
created_job == GetRow(jobs, next_id.job - 1)

\* C3: when a Job is created, every existing JobAlert that satisfies the match
\* predicate receives exactly one JobAlertNotification owned by the alert's
\* owner and referencing that job and that alert.
C3_AlertMatchingComplete ==
    (last.op = "JobCreateView" /\ last.outcome = "ok") =>
        \A a \in alerts :
            SatisfiesMatchPredicate(a, created_job) =>
                Cardinality(notifications_for(notifications, created_job, a)) = 1

\* C4: a notification comes into existence only in the step that creates its
\* job, for an alert that exists and satisfies the match predicate against that
\* job at that moment, and at most once per (job, alert); no other step of any
\* operation adds a notification.
C4_AlertMatchingSound ==
    [][\A n \in notifications' :
          n.id \notin {m.id : m \in notifications} =>
              /\ last'.op = "JobCreateView" /\ last'.outcome = "ok"
              /\ GetRow(jobs, n.job) = NoObj
              /\ GetRow(jobs', n.job) # NoObj
              /\ \E a \in alerts :
                    /\ a.id = n.job_alert
                    /\ a.user = n.user
                    /\ SatisfiesMatchPredicate(a, GetRow(jobs', n.job))
                    /\ notifications_for(notifications', GetRow(jobs', n.job), a) = {n}
      ]_vars

\* a job was created next to an alert that fails the predicate (the alert for
\* java in Boston, the job a Python Developer, Remote) and sent nothing, and in
\* another run next to one that matches and sent its notification
C4_Witness ==
    /\ last.op = "JobCreateView" /\ last.outcome = "ok"
    /\ created_job.title = PythonDeveloper
    /\ created_job.description = BuildServices
    /\ created_job.location = Remote
    /\ \E a \in alerts :
          /\ a.keyword = java /\ a.location = Boston
          /\ ~SatisfiesMatchPredicate(a, created_job)
          /\ notifications_for(notifications, created_job, a) = {}

\* C5: saving an existing Job, from the employer's edit view or the admin
\* change view, creates no notification and leaves the notification store as it
\* was, whatever the edit makes the job match.
C5_NoTriggerOnUpdate ==
    [][(\/ last'.op \in {"JobUpdateView", "JobAdmin.change"}
        \/ \E j \in jobs : \E k \in jobs' : j.id = k.id /\ j # k)
        => notifications' = notifications]_vars

\* an edit was saved that makes the job match an alert it did not match when
\* it was created, and the store holds no notification for it
C5_Witness ==
    /\ last.op = "JobUpdateView" /\ last.outcome = "ok"
    /\ \E j \in jobs : \E a \in alerts :
          /\ j.title = JavaDeveloper /\ j.location = Boston
          /\ a.keyword = java /\ a.location = Boston
          /\ SatisfiesMatchPredicate(a, j)
          /\ notifications_for(notifications, j, a) = {}

----------------------------------------------------------------------------
(* Applying for a job: requests are served by concurrent workers, each     *)
(* between its existence check and its save at most once at a time, while  *)
(* the employer may delete the job and the days pass.                      *)

Applicants == {"a1"}

NextApply ==
    \/ next_id.company <= MaxCompanies /\ CompanyProfileView_post("e1", Acme)
    \/ /\ next_id.job <= MaxJobs
       /\ JobCreateView("e1", PythonDeveloper, BuildServices, Remote, Salary, MaxDay)
    \/ \E w \in Workers, s \in Applicants, pk \in JobIds, form_is_valid \in BOOLEAN :
          apply_for_job_check(w, s, pk, form_is_valid)
    \/ \E w \in Workers : apply_for_job_save(w)
    \/ \E pk \in JobIds : JobDeleteView("e1", pk)
    \/ Tick

SpecApply == Init /\ [][NextApply]_vars

\* the Application rows of a (job, applicant) pair
applications_of(store, job, applicant) ==
    {a \in store : a.job = job /\ a.applicant = applicant}


\* C6: no (job, applicant) pair ever has more than one Application, and a
\* request for a pair that already has its row creates no row and is answered
\* as already applied or with an error message (the expired-posting message
\* and the database error are both error messages), never with success.
C6_AtMostOneApplication ==
    [][/\ \A pk \in JobIds, s \in Users :
             Cardinality(applications_of(applications', pk, s)) <= 1
       /\ \A w \in Workers :
             (req'[w] # req[w] /\ applications_of(applications, req'[w].job, req'[w].user) # {})
                => /\ applications' = applications
                   /\ req'[w].pc = "done"
                   /\ req'[w].outcome \in {"already", "expired", "error"}
      ]_vars

\* the applicant applied, succeeded, and applied again for the same job
C6_Witness ==
    \E w \in Workers :
        /\ req[w].pc = "done" /\ req[w].outcome = "already"
        /\ last = [op |-> "apply_for_job", user |-> req[w].user, outcome |-> "already"]
        /\ Cardinality(applications_of(applications, req[w].job, req[w].user)) = 1

\* two finished requests of one applicant for one job that were both between
\* the existence check and the save at the same time
RacedPair(p, q) ==
    /\ p # q
    /\ req[p].pc = "done" /\ req[q].pc = "done"
    /\ q \in req[p].raced /\ p \in req[q].raced
    /\ req[p].user = req[q].user /\ req[p].job = req[q].job

\* C7: when two submissions of the same applicant for the same job both pass
\* the existence check before either saves, at most one row exists for the
\* pair and at most one of them reports success, the other reports an error,
\* and the save that reports the error changes no Application row.
C7_ConcurrentApply ==
    [][/\ \A p, q \in Workers :
             RacedPair(p, q)' =>
                /\ {req'[p].outcome, req'[q].outcome} \subseteq {"success", "error"}
                /\ "error" \in {req'[p].outcome, req'[q].outcome}
                /\ Cardinality(applications_of(applications', req'[p].job, req'[p].user)) <= 1
       /\ \A w \in Workers :
             (req[w].pc = "saving" /\ req[w].raced # {} /\ req'[w].outcome = "error")
                => applications' = applications
      ]_vars

\* both submissions passed the check, the first save won and the second was
\* reported as an error, with the winner's row in the table
C7_Witness ==
    \E p, q \in Workers :
        /\ RacedPair(p, q)
        /\ req[p].outcome = "success" /\ req[q].outcome = "error"
        /\ last = [op |-> "apply_for_job", user |-> req[q].user, outcome |-> "error"]
        /\ Cardinality(applications_of(applications, req[p].job, req[p].user)) = 1

----------------------------------------------------------------------------
(* The admin surface: the permission commands are run in any order, the    *)
(* employers come and go as staff, one employer builds a company, a job    *)
(* and receives an application, and the two employers and the superuser    *)
(* use the edit view and the admin change and delete views.                *)

Globex == <<"G", "l", "o", "b", "e", "x">>

Employers == {"e1", "e2"}
AdminSubjects == {"e1", "e2", "su"}

NextAdmin ==
    \/ setup_employer_permissions
    \/ \E reset \in BOOLEAN : setup_admin_permissions(reset)
    \/ \E u \in Employers : grant_employer_admin_access(u)
    \/ \E u \in Employers : revoke_employer_admin_access(u)
    \/ next_id.company <= MaxCompanies /\ CompanyProfileView_post("e1", Acme)
    \/ /\ next_id.job <= MaxJobs
       /\ JobCreateView("e1", PythonDeveloper, BuildServices, Remote, Salary, 1)
    \/ \E w \in OneWorker, pk \in JobIds :
          /\ next_id.application <= MaxApplications
          /\ apply_for_job_check(w, "a1", pk, TRUE)
    \/ \E w \in OneWorker : apply_for_job_save(w)
    \/ \E s \in AdminSubjects, pk \in JobIds, j \in JobEdits :
          JobUpdateView(s, pk, j[1], j[2], j[3], Salary, 1)
    \/ \E s \in AdminSubjects, pk \in CompanyIds, user \in Employers :
          CompanyAdmin_change_view(s, pk, Globex, user)
    \/ \E s \in AdminSubjects, pk \in CompanyIds : CompanyAdmin_delete_view(s, pk)
    \/ \E s \in AdminSubjects, pk \in JobIds, j \in JobEdits :
          JobAdmin_change_view(s, pk, j[1], j[2], j[3], Salary, 1)
    \/ \E s \in AdminSubjects, pk \in JobIds : JobAdmin_delete_view(s, pk)
    \/ \E s \in AdminSubjects, pk \in ApplicationIds :
          ApplicationAdmin_change_view(s, pk, "shortlisted")
    \/ \E s \in AdminSubjects, pk \in ApplicationIds : ApplicationAdmin_delete_view(s, pk)

SpecAdmin == Init /\ [][NextAdmin]_vars

(* The review of applications in the admin: the permission commands in any *)
(* order, one employer with a company, a job and an application for it,    *)
(* and the employers and the superuser at the Application change and       *)
(* delete views and the Job delete view.                                   *)

NextReview ==
    \/ setup_employer_permissions
    \/ \E reset \in BOOLEAN : setup_admin_permissions(reset)
    \/ \E u \in Employers : grant_employer_admin_access(u)
    \/ \E u \in Employers : revoke_employer_admin_access(u)
    \/ next_id.company <= MaxCompanies /\ CompanyProfileView_post("e1", Acme)
    \/ /\ next_id.job <= MaxJobs
       /\ JobCreateView("e1", PythonDeveloper, BuildServices, Remote, Salary, 1)
    \/ \E w \in OneWorker, pk \in JobIds :
          /\ next_id.application <= MaxApplications
          /\ apply_for_job_check(w, "a1", pk, TRUE)
    \/ \E w \in OneWorker : apply_for_job_save(w)
    \/ \E s \in AdminSubjects, pk \in ApplicationIds :
          ApplicationAdmin_change_view(s, pk, "shortlisted")
    \/ \E s \in AdminSubjects, pk \in ApplicationIds : ApplicationAdmin_delete_view(s, pk)
    \/ \E s \in AdminSubjects, pk \in JobIds : JobAdmin_delete_view(s, pk)

SpecReview == Init /\ [][NextReview]_vars


\* an employer who has been given admin access and is not a superuser
has_admin_access(s) ==
    /\ has_userprofile(s) /\ user_type(s) = "employer"
    /\ users[s].is_staff /\ "Employers" \in users[s].groups
    /\ ~users[s].is_superuser

\* an employer account that is not a superuser
plain_employer(s) ==
    has_userprofile(s) /\ user_type(s) = "employer" /\ ~users[s].is_superuser

\* C1: for a Job owned by employer E1, JobAdmin.has_change_permission and
\* JobUpdateView refuse every other employer E2 (also one in the Employers
\* group) and leave the job as it is, allow E1, and allow a superuser whoever
\* owns the job.  A refusal is a 403 or the 404 of the owner-filtered queryset.
C1_JobEditAuthorization ==
    [][/\ \A j \in jobs : \A s \in Users :
             /\ (plain_employer(s) /\ s # job_owner(j))
                   => ~JobAdmin_has_change_permission(s, j)
             /\ s = job_owner(j) => JobAdmin_has_change_permission(s, j)
             /\ users[s].is_superuser => JobAdmin_has_change_permission(s, j)
       /\ \A s \in AdminSubjects, j \in jobs, e \in JobEdits :
             (/\ last'.op = "JobUpdateView"
              /\ last'.user = s
              /\ JobUpdateView(s, j.id, e[1], e[2], e[3], Salary, 1))
                => /\ (plain_employer(s) /\ s # job_owner(j))
                         => /\ last'.outcome \in {"forbidden", "notfound"}
                            /\ j \in jobs'
                   /\ s = job_owner(j) => last'.outcome = "ok"
                   /\ users[s].is_superuser => last'.outcome = "ok"
      ]_vars

\* C8: whatever the permission commands have done, an employer who owns the
\* parent Job of an Application and is not a superuser is refused its deletion
\* by ApplicationAdmin while view and change are allowed; whoever is allowed
\* the deletion, or has deleted an Application in the admin, is a superuser.
C8_ApplicationDeleteAsymmetry ==
    /\ \A a \in applications : \A s \in Users :
          /\ (plain_employer(s) /\ application_owner(a) = s)
                => /\ ~ApplicationAdmin_has_delete_permission(s, a)
                   /\ ApplicationAdmin_has_view_permission(s, a)
                   /\ ApplicationAdmin_has_change_permission(s, a)
          /\ ApplicationAdmin_has_delete_permission(s, a) => users[s].is_superuser
    /\ (last.op = "ApplicationAdmin.delete" /\ last.outcome = "ok")
          => users[last.user].is_superuser

\* the owning employer, staff and in the Employers group with its permissions,
\* asked the admin to delete an application for their job and was refused
C8_Witness ==
    /\ last = [op |-> "ApplicationAdmin.delete", user |-> "e1", outcome |-> "forbidden"]
    /\ has_admin_access("e1")
    /\ "jobs.change_application" \in employers_group.permissions
    /\ \E a \in applications :
          /\ application_owner(a) = "e1"
          /\ ~ApplicationAdmin_has_delete_permission("e1", a)
          /\ ApplicationAdmin_has_change_permission("e1", a)

\* C9: an employer with admin access who does not own a Company is refused
\* change and delete on it by CompanyAdmin, and a Company row is changed or
\* removed only in answer to a request of its owner or of a superuser.
C9_CompanySingleWriter ==
    [][/\ \A c \in companies : \A s \in Users :
             (has_admin_access(s) /\ s # c.user)
                => /\ ~CompanyAdmin_has_change_permission(s, c)
                   /\ ~CompanyAdmin_has_delete_permission(s, c)
       /\ \A c \in companies :
             c \notin companies'
                => (last'.user = c.user \/ users[last'.user].is_superuser)
      ]_vars

\* the rows of an admin list: those of get_queryset, served to a staff user
\* who holds the view or the change permission of the model
admin_list(s, may_view, may_change, queryset) ==
    IF admin_site_has_permission(s) /\ (may_view \/ may_change) THEN queryset ELSE {}

\* C10: for an employer with admin access who is not a superuser, the admin
\* lists of Company, Job and Application hold only rows owned by that employer
\* (directly, through the Company, or through the Job's Company).
C10_AdminListsOwnedRowsOnly ==
    \A s \in Users :
        has_admin_access(s) =>
            /\ \A c \in admin_list(s, CompanyAdmin_has_view_permission(s, NoObj),
                                   CompanyAdmin_has_change_permission(s, NoObj),
                                   CompanyAdmin_get_queryset(s)) : c.user = s
            /\ \A j \in admin_list(s, JobAdmin_has_view_permission(s, NoObj),
                                   JobAdmin_has_change_permission(s, NoObj),
                                   JobAdmin_get_queryset(s)) : job_owner(j) = s
            /\ \A a \in admin_list(s, ApplicationAdmin_has_view_permission(s, NoObj),
                                   ApplicationAdmin_has_change_permission(s, NoObj),
                                   ApplicationAdmin_get_queryset(s)) :
                  application_owner(a) = s

----------------------------------------------------------------------------
(* The inbox: two job seekers subscribe to the same alert before the      *)
(* first posting, the employer posts enough matching jobs to fill more     *)
(* than one page of the list, and one job seeker opens pages of the inbox. *)

JobSeekers == {"a1", "a2"}

\* one job more than a page holds
InboxJobs == paginate_by + 1

NextInbox ==
    \/ next_id.company <= MaxCompanies /\ CompanyProfileView_post("e1", Acme)
    \/ /\ next_id.job <= InboxJobs
       /\ JobCreateView("e1", PythonDeveloper, BuildServices, Remote, Salary, 1)
    \/ \E u \in JobSeekers :
          /\ jobs = {}
          /\ Cardinality({a \in alerts : a.user = u}) < MaxAlerts
          /\ create_job_alert(u, python, Remote)
    \/ \E page \in 1..2 : NotificationListView("a1", page)

SpecInbox == Init /\ [][NextInbox]_vars


\* C11: when a user is served a page of the notification inbox, every
\* notification of that user that was unread is read afterwards, whether or not
\* it was on the page displayed, and every notification of another user is
\* exactly as it was.
C11_InboxReadState ==
    [][\A s \in JobSeekers, page \in 1..2 :
          (/\ last'.op = "NotificationListView"
           /\ last'.user = s
           /\ last'.outcome = "ok"
           /\ NotificationListView(s, page))
             => /\ \A n \in notifications :
                      (n.user = s /\ ~n.is_read)
                         => [n EXCEPT !.is_read = TRUE] \in notifications'
                /\ \A n \in notifications : n.user # s => n \in notifications'
                /\ \A n \in notifications' : n.user = s => n.is_read
      ]_vars

\* the inbox of a1 has more rows than a page holds and was displayed: all of
\* its rows are read, and the rows of a2 for the same jobs are still unread
C11_Witness ==
    /\ last = [op |-> "NotificationListView", user |-> "a1", outcome |-> "ok"]
    /\ Cardinality({n \in notifications : n.user = "a1"}) > paginate_by
    /\ \A n \in notifications : n.user = "a1" => n.is_read
    /\ Cardinality({n \in notifications : n.user = "a2" /\ ~n.is_read}) > paginate_by

----------------------------------------------------------------------------
(* Reading single notifications: both job seekers subscribe, the employer  *)
(* posts, and each job seeker asks to mark notifications read by primary   *)
(* key, their own, the other's and ones that do not exist.                 *)

\* the primary keys requested: every row the postings can create and one more
ReadIds == 1..(MaxJobs * MaxAlerts * Cardinality(JobSeekers) + 1)

NextRead ==
    \/ next_id.company <= MaxCompanies /\ CompanyProfileView_post("e1", Acme)
    \/ /\ next_id.job <= MaxJobs
       /\ JobCreateView("e1", PythonDeveloper, BuildServices, Remote, Salary, 1)
    \/ \E u \in JobSeekers :
          /\ Cardinality({a \in alerts : a.user = u}) < MaxAlerts
          /\ create_job_alert(u, python, Remote)
    \/ \E u \in JobSeekers, pk \in ReadIds : mark_notification_read(u, pk)
    \/ \E u \in JobSeekers : NotificationListView(u, 1)

SpecRead == Init /\ [][NextRead]_vars

\* C12: a request to mark a notification read changes nothing but the read
\* flag of the named notification, and only when that notification belongs to
\* the requesting job seeker; naming a notification of another user, or one
\* that does not exist, is answered NotFound or Forbidden and every
\* notification stays as it was.
C12_MarkReadVerifiesOwnership ==
    [][\A s \in JobSeekers, pk \in ReadIds :
          (/\ last'.op = "mark_notification_read"
           /\ last'.user = s
           /\ mark_notification_read(s, pk))
             => /\ (\A n \in notifications : n.id = pk => n.user # s)
                      => /\ last'.outcome \in {"notfound", "forbidden"}
                         /\ notifications' = notifications
                /\ \A n \in notifications :
                      n \notin notifications'
                         => /\ n.user = s /\ n.id = pk
                            /\ last'.outcome = "ok"
                            /\ [n EXCEPT !.is_read = TRUE] \in notifications'
                /\ \A n \in notifications' :
                      n \notin notifications => n.user = s /\ n.id = pk /\ n.is_read
      ]_vars

\* a1, who owns an unread notification, named a primary key that is not
\* theirs and was answered NotFound; a2's notification is still unread
C12_Witness ==
    /\ last = [op |-> "mark_notification_read", user |-> "a1", outcome |-> "notfound"]
    /\ \E n \in notifications : n.user = "a1" /\ ~n.is_read
    /\ \E n \in notifications : n.user = "a2" /\ ~n.is_read

----------------------------------------------------------------------------
(* Failures during the notification fan-out (jobs/signals.py). A fault     *)
(* names the step that raises an exception and the alerts at which it      *)
(* does: "lookup" is the evaluation of all_matches at the head of the      *)
(* loop, "evaluate" the match tests of one alert, "create" the INSERT of   *)
(* one notification row, "email" the send_mail call of one notification.    *)
(* Each statement commits on its own (Django's autocommit; no view or      *)
(* receiver opens a transaction).                                          *)

FaultStages == {"none", "lookup", "evaluate", "create", "email"}

\* the alerts whose turn in the loop ends without a notification row: the
\* except clauses of lines 66 and 122 catch the exception of that turn; a
\* failed send_mail is caught at line 117, after the row was created
failed_alerts(fault) ==
    IF fault.stage \in {"evaluate", "create"} THEN fault.alerts ELSE {}

\* the loop of check_job_alerts ending at the first exception: the alerts
\* are visited newest first, only those before the first failing one are sent
check_job_alerts_aborting(job, created, fault) ==
    IF ~created \/ fault.stage = "lookup" THEN {}
    ELSE LET sent == {a \in notified_alerts(job) :
                         \A b \in all_matches(job) :
                            b.id \in failed_alerts(fault) => a.id > b.id}
         IN  {send_job_alert_notification(a, job, sent) : a \in sent}

\* check_job_alerts under a fault: the rows it creates
check_job_alerts_failing(job, created, fault) ==
    IF ~created \/ fault.stage = "lookup" THEN {}
    ELSE LET sent == {a \in notified_alerts(job) : a.id \notin failed_alerts(fault)}
         IN  {send_job_alert_notification(a, job, sent) : a \in sent}

\* Job.save() followed by the post_save signal, under a fault: the row of the
\* job is inserted before the signal is sent
post_save_Job_failing(job, created, fault) ==
    /\ notifications' = notifications \cup check_job_alerts_failing(job, created, fault)
    /\ next_id' = [next_id EXCEPT
          !.job = IF created THEN @ + 1 ELSE @,
          !.notification = @ + Cardinality(check_job_alerts_failing(job, created, fault))]

\* JobCreateView under a fault of the fan-out: an exception raised at the
\* head of the loop is outside every try block, leaves the receiver, Job.save()
\* and form_valid, and the request is answered with a server error
JobCreateView_failing(s, title, description, location, salary, deadline, fault) ==
    LET own == companies_of(s)
        job == [id |-> next_id.job, company |-> (CHOOSE c \in own : TRUE).id,
                title |-> strip(title), description |-> strip(description),
                location |-> strip(location), salary |-> salary,
                deadline |-> deadline]
    IN
    IF /\ EmployerRequiredMixin(s) = "pass"
       /\ JobForm_is_valid(title, description, location, salary, deadline)
       /\ Cardinality(own) = 1
    THEN
        /\ jobs' = jobs \cup {job}
        /\ post_save_Job_failing(job, TRUE, fault)
        /\ Respond("JobCreateView", s,
                   IF fault.stage = "lookup" THEN "error" ELSE "ok")
        /\ UNCHANGED <<users, employers_group, jobseekers_group, companies,
                       applications, alerts, req, today, db_ci>>
    ELSE
        \* the request ends before Job.save(): no signal is sent
        JobCreateView(s, title, description, location, salary, deadline)

\* the primary keys of the alerts subscribed: one more than one, so that an
\* alert can fail while another one is due its notification
FanoutAlertIds == 1..(MaxAlerts + 1)

\* the faults injected: none, the lookup, or one step at one alert
Faults ==
    {[stage |-> st, alerts |-> {}] : st \in {"none", "lookup"}}
      \cup {[stage |-> st, alerts |-> {a}] :
               st \in {"evaluate", "create", "email"}, a \in FanoutAlertIds}

\* title, description, location of the jobs posted
FanoutJobs == {<<PythonDeveloper, BuildServices, Remote>>}

\* keyword, location of the alerts subscribed
FanoutAlerts == {<<python, Remote>>, <<java, Boston>>}

NextFanout ==
    \/ next_id.company <= MaxCompanies /\ CompanyProfileView_post("e1", Acme)
    \/ \E u \in JobSeekers, a \in FanoutAlerts :
          /\ jobs = {}
          /\ next_id.alert \in FanoutAlertIds
          /\ create_job_alert(u, a[1], a[2])
    \/ \E j \in FanoutJobs, fault \in Faults :
          /\ next_id.job <= MaxJobs
          /\ JobCreateView_failing("e1", j[1], j[2], j[3], Salary, 1, fault)

SpecFanout == Init /\ [][NextFanout]_vars

C14_JobCreationAuthoritative ==
    [][\A j \in FanoutJobs, fault \in Faults :
          (/\ last'.op = "JobCreateView"
           /\ EmployerRequiredMixin("e1") = "pass"
           /\ JobForm_is_valid(j[1], j[2], j[3], Salary, 1)
           /\ Cardinality(companies_of("e1")) = 1
           /\ JobCreateView_failing("e1", j[1], j[2], j[3], Salary, 1, fault))
             => /\ last'.outcome = "ok"
                /\ \E job \in jobs' : job.id = next_id.job /\ job.title = strip(j[1])
      ]_vars

----------------------------------------------------------------------------
(* Deadlines: the employer posts and edits jobs with deadlines before, on  *)
(* and after the current date, a job seeker is subscribed, and the date    *)
(* advances.                                                               *)

\* the deadlines submitted: days up to the day after the last one
Deadlines == 0..(MaxDay + 1)

NextDeadline ==
    \/ next_id.company <= MaxCompanies /\ CompanyProfileView_post("e1", Acme)
    \/ /\ next_id.alert <= MaxAlerts
       /\ create_job_alert("a1", python, Remote)
    \/ \E deadline \in Deadlines :
          /\ next_id.job <= MaxJobs \/ deadline <= today
          /\ JobCreateView("e1", PythonDeveloper, BuildServices, Remote, Salary, deadline)
    \/ \E pk \in JobIds, deadline \in Deadlines :
          JobUpdateView("e1", pk, PythonDeveloper, BuildServices, Remote, Salary, deadline)
    \/ Tick

SpecDeadline == Init /\ [][NextDeadline]_vars

\* C15: a job creation whose deadline is on or before the current date is
\* answered with a validation failure (when the request got as far as the
\* form) and creates neither a job nor a notification; and at every date each
\* job is active exactly when its deadline is after the current date.
C15_JobDeadlineRule ==
    /\ [](\A job \in jobs :
             /\ job.deadline <= today => ~Job_is_active(job)
             /\ job.deadline > today => Job_is_active(job))
    /\ [][\A deadline \in Deadlines :
             (/\ last'.op = "JobCreateView"
              /\ deadline <= today
              /\ JobCreateView("e1", PythonDeveloper, BuildServices, Remote,
                               Salary, deadline))
                => /\ last'.outcome = "invalid"
                   /\ jobs' = jobs
                   /\ notifications' = notifications
                   /\ next_id' = next_id
         ]_vars

\* on the day of its deadline a job that was posted the day before is no more
\* active, and a new job with the deadline of that day has just been rejected
C15_Witness ==
    /\ last = [op |-> "JobCreateView", user |-> "e1", outcome |-> "invalid"]
    /\ today > 0
    /\ alerts # {}
    /\ \E job \in jobs : job.deadline = today /\ ~Job_is_active(job)

----------------------------------------------------------------------------
(* Accounts (accounts/models.py, accounts/forms.py, accounts/views.py).    *)

\* User.save() of a new user followed by the post_save receivers
\* create_user_profile and save_user_profile, then the registration form
\* setting user_type on the profile the signal created
registration_form_save(type) == Account(type, FALSE, FALSE)

\* employer_register, jobseeker_register: a username that is taken is
\* refused by the form, or, when another registration of the same username
\* was saved after the form was validated, by the unique constraint of the
\* username (IntegrityError); neither creates a user or a profile
register(u, type) ==
    /\ IF users[u].exists
       THEN /\ \E outcome \in {"invalid", "error"} : Respond("register", Anonymous, outcome)
            /\ UNCHANGED users
       ELSE /\ users' = [users EXCEPT ![u] = registration_form_save(type)]
            /\ Respond("register", Anonymous, "ok")
    /\ UNCHANGED <<employers_group, jobseekers_group, companies, jobs, applications,
                   alerts, notifications, next_id, req, today, db_ci>>

\* profile_view (login_required), POST with a valid form: request.user.userprofile
\* raises RelatedObjectDoesNotExist when the user has no profile; otherwise
\* User.save() and UserProfile.save() of existing rows
profile_view(s) ==
    /\ Respond("profile_view", s,
               IF ~is_authenticated(s) THEN "login"
               ELSE IF ~has_userprofile(s) THEN "error"
               ELSE "ok")
    /\ UNCHANGED <<users, employers_group, jobseekers_group, companies, jobs,
                   applications, alerts, notifications, next_id, req, today, db_ci>>

\* the sample-data command is run with --clear, visitors register under the
\* usernames it freed or under taken ones, and users edit their profiles
NextAccounts ==
    \/ generate_sample_data_clear
    \/ \E u \in Users \ {"su"}, type \in {"employer", "jobseeker"} : register(u, type)
    \/ \E s \in Subjects : profile_view(s)

SpecAccounts == Init /\ [][NextAccounts]_vars

\* C16: in every state every user that exists has a profile (the one-to-one
\* field admits no second one), whatever registrations, profile edits and
\* runs of the sample-data clearing command came before.
C16_ProfileInvariant ==
    \A u \in Users : users[u].exists => users[u].has_profile

----------------------------------------------------------------------------
(* Application status: either employer sets up a company and posts a job,  *)
(* a job seeker applies, and employers, the job seeker and the superuser   *)
(* ask to set the status, through the portal and through the admin.        *)

\* the values submitted for the status: the four choices and one that is none
StatusInputs == STATUS_CHOICES \cup {"hired"}

\* who asks for a status change
StatusSubjects == {"e1", "e2", "a1", "su"}

NextStatus ==
    \/ setup_employer_permissions
    \/ \E u \in Employers : grant_employer_admin_access(u)
    \/ \E e \in Employers :
          next_id.company <= MaxCompanies /\ CompanyProfileView_post(e, Acme)
    \/ \E e \in Employers :
          /\ next_id.job <= MaxJobs
          /\ JobCreateView(e, PythonDeveloper, BuildServices, Remote, Salary, 1)
    \/ \E w \in OneWorker, pk \in JobIds :
          /\ next_id.application <= MaxApplications
          /\ apply_for_job_check(w, "a1", pk, TRUE)
    \/ \E w \in OneWorker : apply_for_job_save(w)
    \/ \E s \in StatusSubjects, pk \in ApplicationIds, status \in StatusInputs :
          update_application_status(s, pk, status)
    \/ \E s \in AdminSubjects, pk \in ApplicationIds :
          ApplicationAdmin_change_view(s, pk, "under_review")

SpecStatus == Init /\ [][NextStatus]_vars

C18_NotificationsAppendOnly ==
    [][\A n \in notifications :
          \E m \in notifications' : [m EXCEPT !.is_read = n.is_read] = n
      ]_vars

----------------------------------------------------------------------------
(* Company profiles: both employers, and a job seeker, submit the company  *)
(* profile form one request after the other, with valid names and with one *)
(* that is too short, and the employers post jobs.                         *)

\* the names submitted: two valid ones and one of a single character
CompanyNames == {Acme, Globex, <<"A">>}

\* more company rows than employers can be created
CompanyRows == 1..(MaxCompanies * Cardinality(Employers) + 1)

NextCompany ==
    \/ \E s \in Employers \cup {"a1"}, name \in CompanyNames :
          /\ next_id.company \in CompanyRows
          /\ CompanyProfileView_post(s, name)
    \/ \E e \in Employers :
          /\ next_id.job <= MaxJobs
          /\ JobCreateView(e, PythonDeveloper, BuildServices, Remote, Salary, 1)

SpecCompany == Init /\ [][NextCompany]_vars

\* C19: when company-profile submissions do not overlap, every employer owns
\* at most one company: a valid submission by an employer without a company
\* creates one owned by that employer, a valid submission by an employer with
\* a company updates that company and creates none, and no submission changes
\* a company of somebody else.
C19_OneCompanyPerEmployer ==
    /\ [](\A e \in Employers : Cardinality(companies_of(e)) <= 1)
    /\ [][\A s \in Employers, name \in CompanyNames :
             (/\ last'.op = "CompanyProfileView"
              /\ last'.user = s
              /\ CompanyProfileView_post(s, name))
                => /\ \A c \in companies : c.user # s => c \in companies'
                   /\ \A c \in companies' : c \notin companies => c.user = s
                   /\ IF ~CompanyProfileForm_clean_name(name)
                      THEN last'.outcome = "invalid" /\ companies' = companies
                      ELSE IF companies_of(s) = {}
                      THEN /\ last'.outcome = "created"
                           /\ Cardinality(companies') = Cardinality(companies) + 1
                      ELSE /\ last'.outcome = "updated"
                           /\ {c.id : c \in companies'} = {c.id : c \in companies}
                           /\ \E c \in companies' : c.user = s /\ c.name = strip(name)
         ]_vars

\* both employers have a company and e1 has just renamed theirs: there are
\* still two companies, one each
C19_Witness ==
    /\ last = [op |-> "CompanyProfileView", user |-> "e1", outcome |-> "updated"]
    /\ Cardinality(companies) = Cardinality(Employers)
    /\ \A e \in Employers : Cardinality(companies_of(e)) = 1
    /\ \E c \in companies : c.user = "e1" /\ c.id = 1 /\ c.name = Globex

----------------------------------------------------------------------------
(* Overlapping company-profile submissions.  A worker runs                 *)
(* CompanyProfileView.post in two steps: the lookup of the employer's       *)
(* company and the validation of the form bound to it, then company.save(); *)
(* requests of other workers may run between the two.                      *)

\* CompanyProfileView.post, from the mixin to form.is_valid(): the form is
\* bound to the employer's company, or to a new instance when there is none
CompanyProfileView_post_bind(w, s, name) ==
    LET gate == EmployerRequiredMixin(s)
        own  == companies_of(s)
        outcome == IF gate # "pass" THEN gate
                   ELSE IF Cardinality(own) > 1 THEN "error"
                   ELSE IF ~CompanyProfileForm_clean_name(name) THEN "invalid"
                   ELSE "none"
    IN
    /\ req[w].pc \notin {"saving", "company_save"}
    /\ IF outcome # "none" THEN
            /\ Respond("CompanyProfileView", s, outcome)
            /\ UNCHANGED req
       ELSE
            /\ req' = [req EXCEPT ![w] =
                  [pc |-> "company_save", user |-> s, job |-> 0, outcome |-> "none",
                   raced |-> {},
                   company |-> IF own = {} THEN 0 ELSE (CHOOSE c \in own : TRUE).id,
                   name |-> strip(name)]]
            /\ UNCHANGED last
    /\ UNCHANGED <<users, employers_group, jobseekers_group, companies, jobs,
                   applications, alerts, notifications, next_id, today, db_ci>>

\* CompanyProfileView.post, company.save() and the response: an instance
\* without primary key is inserted, one with a primary key is updated
CompanyProfileView_post_save(w) ==
    LET s  == req[w].user
        pk == req[w].company
    IN
    /\ req[w].pc = "company_save"
    /\ IF pk = 0 THEN
            /\ companies' = companies \cup
                  {[id |-> next_id.company, user |-> s, name |-> req[w].name]}
            /\ next_id' = [next_id EXCEPT !.company = @ + 1]
            /\ Respond("CompanyProfileView", s, "created")
       ELSE
            /\ companies' = {c \in companies : c.id # pk} \cup
                  {[id |-> pk, user |-> s, name |-> req[w].name]}
            /\ Respond("CompanyProfileView", s, "updated")
            /\ UNCHANGED next_id
    /\ req' = [req EXCEPT ![w] = [pc |-> "done", user |-> s, job |-> 0,
                                  outcome |-> last'.outcome, raced |-> {}]]
    /\ UNCHANGED <<users, employers_group, jobseekers_group, jobs,
                   applications, alerts, notifications, today, db_ci>>

NextCompanyRace ==
    \/ \E w \in Workers, s \in Employers, name \in {Acme, Globex} :
          /\ next_id.company \in CompanyRows
          /\ CompanyProfileView_post_bind(w, s, name)
    \/ \E w \in Workers : CompanyProfileView_post_save(w)
    \/ \E e \in Employers :
          /\ next_id.job <= MaxJobs
          /\ JobCreateView(e, PythonDeveloper, BuildServices, Remote, Salary, 1)

SpecCompanyRace == Init /\ [][NextCompanyRace]_vars

\* C20: however two company-profile submissions of the same employer
\* interleave, the employer owns at most one company afterwards, and the
\* later lookup of the employer's company by JobCreateView does not fail.
C20_ConcurrentCompanySubmission ==
    /\ \A e \in Employers : Cardinality(companies_of(e)) <= 1
    /\ last.op = "JobCreateView" => last.outcome # "error"

----------------------------------------------------------------------------
(* Roles: the admin of profiles (accounts/admin.py).                       *)

\* UserProfile.USER_TYPE_CHOICES
USER_TYPE_CHOICES == {"employer", "jobseeker"}

\* UserProfileAdmin, the change view (POST) of the profile of u: user_type is
\* in the fieldsets and not in readonly_fields, so the form has it as a field
\* with the two choices
UserProfileAdmin_change_view(s, u, type) ==
    /\ Respond("UserProfileAdmin.change", s,
               IF ~admin_site_has_permission(s) THEN "login"
               ELSE IF ~has_perm(s, "accounts.change_userprofile") THEN "forbidden"
               ELSE IF ~(users[u].exists /\ has_userprofile(u)) THEN "notfound"
               ELSE IF type \notin USER_TYPE_CHOICES THEN "invalid"
               ELSE "ok")
    /\ users' = IF last'.outcome = "ok"
                THEN [users EXCEPT ![u].user_type = type]
                ELSE users
    /\ UNCHANGED <<employers_group, jobseekers_group, companies, jobs, applications,
                   alerts, notifications, next_id, req, today, db_ci>>

\* registered users edit their profiles and subscribe to alerts, admin access
\* is granted and revoked, and staff users post the change form of profiles in
\* the admin
NextRoles ==
    \/ generate_sample_data_clear
    \/ \E u \in Employers \cup {"a1"}, type \in USER_TYPE_CHOICES : register(u, type)
    \/ \E s \in Subjects : profile_view(s)
    \/ setup_employer_permissions
    \/ \E u \in Employers : grant_employer_admin_access(u)
    \/ \E u \in Employers : revoke_employer_admin_access(u)
    \/ \E s \in AdminSubjects, u \in Employers \cup {"a1"},
          type \in USER_TYPE_CHOICES \cup {""} :
          UserProfileAdmin_change_view(s, u, type)
    \/ \E s \in Subjects :
          next_id.alert <= MaxAlerts /\ create_job_alert(s, python, Remote)

SpecRoles == Init /\ [][NextRoles]_vars

\* C21: no step changes the role of an existing profile from employer to
\* jobseeker or from jobseeker to employer.
C21_RoleImmutable ==
    [][\A u \in Users :
          (/\ users[u].exists /\ users'[u].exists
           /\ users[u].has_profile /\ users'[u].has_profile
           /\ users[u].user_type \in USER_TYPE_CHOICES)
             => users'[u].user_type = users[u].user_type
      ]_vars

\* C22: in every state the owner of every job alert has the role jobseeker;
\* create_job_alert creates an alert only for an authenticated requester
\* whose role is jobseeker, and the new alert is owned by the requester.
C22_AlertsOwnedByJobSeekers ==
    /\ [](\A a \in alerts : is_jobseeker(a.user))
    /\ [][\A s \in Subjects :
             (/\ last'.op = "create_job_alert"
              /\ last'.user = s
              /\ create_job_alert(s, python, Remote))
                => \A a \in alerts' \ alerts : a.user = s /\ is_jobseeker(s)
         ]_vars

----------------------------------------------------------------------------
(* Registration in its two writes (accounts/forms.py).  A worker runs      *)
(* form.save() in two steps: user.save(), whose post_save receiver creates *)
(* the profile with no role, then user_profile.save() with the role; other *)
(* requests, also of the new user, may run between the two.                *)

\* employer_register, jobseeker_register up to user.save(): the form refuses
\* a username that is taken; otherwise the User row is inserted and
\* create_user_profile inserts its UserProfile, user_type still empty
register_user_save(w, u, type) ==
    /\ req[w].pc \notin {"saving", "company_save", "profile_save"}
    /\ IF users[u].exists
       THEN /\ Respond("register", Anonymous, "invalid")
            /\ UNCHANGED <<users, req>>
       ELSE /\ users' = [users EXCEPT ![u] = Account("", FALSE, FALSE)]
            /\ req' = [req EXCEPT ![w] =
                  [pc |-> "profile_save", user |-> u, job |-> 0, outcome |-> "none",
                   raced |-> {}, user_type |-> type]]
            /\ UNCHANGED last
    /\ UNCHANGED <<employers_group, jobseekers_group, companies, jobs, applications,
                   alerts, notifications, next_id, today, db_ci>>

\* the second write: user_profile.user_type = ...; user_profile.save(), and
\* the response; the save fails when the user was deleted in between
register_profile_save(w) ==
    LET u == req[w].user IN
    /\ req[w].pc = "profile_save"
    /\ IF users[u].exists /\ has_userprofile(u)
       THEN /\ users' = [users EXCEPT ![u].user_type = req[w].user_type]
            /\ Respond("register", Anonymous, "ok")
       ELSE /\ Respond("register", Anonymous, "error")
            /\ UNCHANGED users
    /\ req' = [req EXCEPT ![w] = [pc |-> "done", user |-> u, job |-> 0,
                                  outcome |-> last'.outcome, raced |-> {}]]
    /\ UNCHANGED <<employers_group, jobseekers_group, companies, jobs, applications,
                   alerts, notifications, next_id, today, db_ci>>

\* the usernames registered
Registrants == {"e1", "a1"}

\* the sample data is cleared, visitors register, and every account, also
\* one whose registration is between its two writes, asks for the role-gated
\* routes
NextRegister ==
    \/ generate_sample_data_clear
    \/ \E w \in OneWorker, u \in Registrants, type \in USER_TYPE_CHOICES :
          register_user_save(w, u, type)
    \/ \E w \in OneWorker : register_profile_save(w)
    \/ \E s \in Registrants :
          next_id.company <= MaxCompanies /\ CompanyProfileView_post(s, Acme)
    \/ \E s \in Registrants : update_application_status(s, 1, "rejected")
    \/ \E s \in Registrants :
          next_id.alert <= MaxAlerts /\ create_job_alert(s, python, Remote)
    \/ \E s \in Registrants : NotificationListView(s, 1)

SpecRegister == Init /\ [][NextRegister]_vars

\* a user whose profile exists and whose role is not set
role_unset(s) ==
    s \in Users /\ users[s].exists /\ has_userprofile(s)
       /\ user_type(s) \notin USER_TYPE_CHOICES

\* C23: when the second write of a registration completes the user's role is
\* the one registered for; a role that is set is not unset while the user
\* exists; and while a profile exists with its role unset, every role-gated
\* request of that user is answered Forbidden and changes no data.
C23_RegistrationFailsClosed ==
    [][/\ \A w \in OneWorker :
             (register_profile_save(w) /\ last'.outcome = "ok")
                => /\ req[w].user_type \in USER_TYPE_CHOICES
                   /\ users'[req[w].user].user_type = req[w].user_type
       /\ \A u \in Users :
             (users[u].exists /\ users'[u].exists /\ ~role_unset(u)
                /\ has_userprofile(u))
                => users'[u].user_type \in USER_TYPE_CHOICES
       /\ \A s \in Registrants :
             (/\ role_unset(s)
              /\ last'.user = s
              /\ \/ CompanyProfileView_post(s, Acme)
                 \/ update_application_status(s, 1, "rejected")
                 \/ create_job_alert(s, python, Remote)
                 \/ NotificationListView(s, 1))
                => /\ last'.outcome = "forbidden"
                   /\ UNCHANGED <<companies, jobs, applications, alerts,
                                   notifications, next_id>>
      ]_vars

\* a registration of e1 as employer is between its two writes (the profile
\* exists, without a role) and e1 has just been refused the company form
C23_Witness ==
    /\ last = [op |-> "CompanyProfileView", user |-> "e1", outcome |-> "forbidden"]
    /\ role_unset("e1")
    /\ \E w \in Workers :
          /\ req[w].pc = "profile_save" /\ req[w].user = "e1"
          /\ req[w].user_type = "employer"


----------------------------------------------------------------------------
(* The salary of a job: JobForm.clean_salary on creation and update.       *)

\* the salaries submitted, in hundredths: below zero, zero, the smallest
\* unit, the largest accepted amount and the first amount above it
Salaries == {0 - 1, 0, 1, MaxSalary, MaxSalary + 1}

NextSalary ==
    \/ \E s \in Employers :
          next_id.company <= MaxCompanies /\ CompanyProfileView_post(s, Acme)
    \/ \E s \in Employers, salary \in Salaries :
          /\ next_id.job <= MaxJobs
          /\ JobCreateView(s, PythonDeveloper, BuildServices, Remote, salary, 1)
    \/ \E s \in Employers, pk \in JobIds, salary \in Salaries :
          JobUpdateView(s, pk, PythonDeveloper, BuildServices, Remote, salary, 1)
    \/ \E s \in Employers, pk \in JobIds : JobDeleteView(s, pk)

SpecSalary == Init /\ [][NextSalary]_vars

\* C24: every job has a salary above zero and at most 9999999.99, and a
\* creation submitted by an employer with a company profile with a salary of
\* zero or less, or above 9999999.99, is answered with a validation failure
\* and creates no job.
C24_SalaryPositiveBounded ==
    /\ [](\A job \in jobs : job.salary > 0 /\ job.salary <= MaxSalary)
    /\ [][\A s \in Employers, salary \in Salaries :
             (/\ last'.op = "JobCreateView"
              /\ last'.user = s
              /\ salary <= 0 \/ salary > MaxSalary
              /\ EmployerRequiredMixin(s) = "pass"
              /\ Cardinality(companies_of(s)) = 1
              /\ JobCreateView(s, PythonDeveloper, BuildServices, Remote, salary, 1))
             => (last'.outcome = "invalid" /\ jobs' = jobs)]_vars


----------------------------------------------------------------------------
(* Deleting a job or an alert that belongs to somebody else.               *)

NextDelete ==
    \/ \E s \in Employers :
          next_id.company <= MaxCompanies /\ CompanyProfileView_post(s, Acme)
    \/ \E s \in Employers :
          /\ next_id.job <= MaxJobs
          /\ JobCreateView(s, PythonDeveloper, BuildServices, Remote, Salary, 1)
    \/ \E s \in JobSeekers :
          next_id.alert <= MaxAlerts /\ create_job_alert(s, python, Remote)
    \/ \E s \in Employers, pk \in 1..(MaxJobs + 1) : JobDeleteView(s, pk)
    \/ \E s \in JobSeekers, pk \in 1..(MaxAlerts + 1) : delete_job_alert(s, pk)

SpecDelete == Init /\ [][NextDelete]_vars

\* C25: an employer who asks to delete a job that exists and belongs to
\* another employer, and a job seeker who asks to delete an alert that exists
\* and belongs to another job seeker, are answered Forbidden (not the
\* NotFound of an id that does not exist) and the object stays in place.
C25_ObjectDenialIsForbidden ==
    [][/\ \A s \in Employers, pk \in 1..(MaxJobs + 1) :
            (/\ last'.op = "JobDeleteView"
             /\ last'.user = s
             /\ EmployerRequiredMixin(s) = "pass"
             /\ JobDeleteView(s, pk))
            => /\ (\E j \in jobs : j.id = pk /\ job_owner(j) # s)
                     => last'.outcome = "forbidden" /\ jobs' = jobs
               /\ (\A j \in jobs : j.id # pk)
                     => last'.outcome = "notfound" /\ jobs' = jobs
       /\ \A s \in JobSeekers, pk \in 1..(MaxAlerts + 1) :
            (/\ last'.op = "delete_job_alert"
             /\ last'.user = s
             /\ jobseeker_required(s) = "pass"
             /\ delete_job_alert(s, pk))
            => /\ (\E a \in alerts : a.id = pk /\ a.user # s)
                     => last'.outcome = "forbidden" /\ alerts' = alerts
               /\ (\A a \in alerts : a.id # pk)
                     => last'.outcome = "notfound" /\ alerts' = alerts]_vars


----------------------------------------------------------------------------
(* The detail page of an application.                                      *)

\* ApplicationDetailView (dispatch: get_object, the two ownership tests, and
\* only then LoginRequiredMixin.dispatch)
ApplicationDetailView(s, pk) ==
    LET application == GetRow(applications, pk) IN
    /\ IF application = NoObj THEN
           Respond("ApplicationDetailView", s, "notfound")
       ELSE IF s = application.applicant
               \/ (is_employer(s) /\ application_owner(application) = s) THEN
           IF ~is_authenticated(s)
           THEN Respond("ApplicationDetailView", s, "login")
           ELSE Respond("ApplicationDetailView", s, "ok")
       ELSE
           Respond("ApplicationDetailView", s, "forbidden")
    /\ UNCHANGED <<users, employers_group, jobseekers_group, companies, jobs,
                   applications, alerts, notifications, next_id, req, today, db_ci>>

NextDetail ==
    \/ \E s \in Employers :
          next_id.company <= MaxCompanies /\ CompanyProfileView_post(s, Acme)
    \/ \E s \in Employers :
          /\ next_id.job <= MaxJobs
          /\ JobCreateView(s, PythonDeveloper, BuildServices, Remote, Salary, 1)
    \/ \E w \in OneWorker, s \in JobSeekers, pk \in JobIds :
          /\ next_id.application <= MaxApplications
          /\ apply_for_job_check(w, s, pk, TRUE)
    \/ \E w \in OneWorker : apply_for_job_save(w)
    \/ \E s \in Subjects, pk \in 1..(MaxApplications + 1) :
          ApplicationDetailView(s, pk)

SpecDetail == Init /\ [][NextDetail]_vars

\* C26: the detail page of an application is shown only to its applicant and
\* to the employer who owns the company of its job; every other signed-in
\* user is answered Forbidden; and a visitor who is not signed in is sent to
\* the login page, whether or not the application exists.
C26_ApplicationDetailAccess ==
    [][\A s \in Subjects, pk \in 1..(MaxApplications + 1) :
          (/\ last'.op = "ApplicationDetailView"
           /\ last'.user = s
           /\ ApplicationDetailView(s, pk))
          => LET application == GetRow(applications, pk) IN
             /\ last'.outcome = "ok"
                   => /\ application # NoObj
                      /\ \/ s = application.applicant
                         \/ is_employer(s) /\ application_owner(application) = s
             /\ (/\ is_authenticated(s)
                 /\ application # NoObj
                 /\ s # application.applicant
                 /\ ~(is_employer(s) /\ application_owner(application) = s))
                   => last'.outcome = "forbidden"
             /\ ~is_authenticated(s) => last'.outcome = "login"]_vars


----------------------------------------------------------------------------
(* Applying as the date advances towards and past the deadline.            *)

NextExpiry ==
    \/ next_id.company <= MaxCompanies /\ CompanyProfileView_post("e1", Acme)
    \/ \E deadline \in Deadlines :
          /\ next_id.job <= MaxJobs
          /\ JobCreateView("e1", PythonDeveloper, BuildServices, Remote, Salary, deadline)
    \/ \E pk \in JobIds, deadline \in Deadlines :
          JobUpdateView("e1", pk, PythonDeveloper, BuildServices, Remote, Salary, deadline)
    \/ \E w \in OneWorker, s \in JobSeekers, pk \in JobIds :
          /\ \/ next_id.application <= MaxApplications
             \/ GetRow(jobs, pk) # NoObj /\ ~Job_is_active(GetRow(jobs, pk))
          /\ apply_for_job_check(w, s, pk, TRUE)
    \/ \E w \in OneWorker : apply_for_job_save(w)
    \/ Tick

SpecExpiry == Init /\ [][NextExpiry]_vars

\* C27: an application is only ever created for a job whose deadline is after
\* the date of its creation, and a job seeker's request to apply for an
\* existing job whose deadline is on or before the current date is answered
\* 'expired' and changes no row.
C27_ApplyOnlyWhileActive ==
    [][/\ \A r \in applications' \ applications :
             GetRow(jobs', r.job).deadline > today'
       /\ \A w \in Workers :
             (/\ req'[w] # req[w]
              /\ req[w].pc # "saving"
              /\ jobseeker_required(req'[w].user) = "pass"
              /\ GetRow(jobs, req'[w].job) # NoObj
              /\ GetRow(jobs, req'[w].job).deadline <= today)
             => /\ req'[w].outcome = "expired"
                /\ last'.outcome = "expired"
                /\ UNCHANGED data]_vars


----------------------------------------------------------------------------
(* Posting a job with and without a company profile.                       *)

NextPosting ==
    \/ \E s \in Employers :
          next_id.company <= MaxCompanies /\ CompanyProfileView_post(s, Acme)
    \/ next_id.alert <= MaxAlerts /\ create_job_alert("a1", python, Remote)
    \/ \E s \in Employers, deadline \in Deadlines :
          /\ next_id.job <= MaxJobs
          /\ JobCreateView(s, PythonDeveloper, BuildServices, Remote, Salary, deadline)
    \/ \E s \in Employers, pk \in JobIds : JobDeleteView(s, pk)

SpecPosting == Init /\ [][NextPosting]_vars

\* C28 as stated: a job is created only for an employer who owns a company and
\* belongs to that employer's own company; and every job submission by an
\* employer who owns no company creates no job, emits no notification and is
\* answered with the redirect to the company profile page.
C28_Original ==
    [][\A s \in Employers, deadline \in Deadlines :
          (/\ last'.op = "JobCreateView"
           /\ last'.user = s
           /\ JobCreateView(s, PythonDeveloper, BuildServices, Remote, Salary, deadline))
          => /\ \A job \in jobs' \ jobs :
                   /\ companies_of(s) # {}
                   /\ GetRow(companies, job.company) \in companies_of(s)
             /\ companies_of(s) = {}
                   => /\ jobs' = jobs
                      /\ notifications' = notifications
                      /\ last'.outcome = "no_company"]_vars

\* C28: a job is created only for an employer who owns a company and belongs
\* to that employer's own company; a job submission by an employer who owns
\* no company creates no job and emits no notification, and it is answered
\* with the redirect to the company profile page when the form is valid and
\* with the form's validation failure when it is not.
C28_JobCreationRequiresCompany ==
    [][\A s \in Employers, deadline \in Deadlines :
          (/\ last'.op = "JobCreateView"
           /\ last'.user = s
           /\ JobCreateView(s, PythonDeveloper, BuildServices, Remote, Salary, deadline))
          => /\ \A job \in jobs' \ jobs :
                   /\ companies_of(s) # {}
                   /\ GetRow(companies, job.company) \in companies_of(s)
             /\ companies_of(s) = {}
                   => /\ jobs' = jobs
                      /\ notifications' = notifications
                      /\ IF JobForm_is_valid(PythonDeveloper, BuildServices, Remote,
                                             Salary, deadline)
                         THEN last'.outcome = "no_company"
                         ELSE last'.outcome = "invalid"]_vars

\* an employer without a company was sent to the company profile page while
\* another employer owns a company and a matching alert is waiting
C28_Witness ==
    /\ last.op = "JobCreateView"
    /\ last.outcome = "no_company"
    /\ companies_of(last.user) = {}
    /\ companies # {}
    /\ \E a \in alerts : a.keyword = python
    /\ jobs = {}
    /\ notifications = {}


----------------------------------------------------------------------------
(* C29: in every state the portal can reach, by any order of the permission *)
(* commands and of grant_employer_admin_access, a run of                    *)
(* setup_employer_permissions() leaves the 'Employers' group holding the    *)
(* ten listed permissions and not delete_application.                       *)
C29_SetupOrderIndependent ==
    LET after == get_or_create_group(employers_group, permissions_to_add) IN
    /\ after.exists
    /\ after.permissions = permissions_to_add
    /\ "jobs.delete_application" \notin after.permissions


----------------------------------------------------------------------------
(* One notification for each job and alert: creations, edits on the portal *)
(* and in the admin, alerts subscribed before and after, and the inbox.    *)

\* keyword, location of the alerts subscribed: the first is selected by the
\* title query, the token query and the location query of the job posted
DedupeAlerts == {<<PythonDeveloper, Remote>>, <<python, Remote>>}

NextDedupe ==
    \/ next_id.company <= MaxCompanies /\ CompanyProfileView_post("e1", Acme)
    \/ \E a \in DedupeAlerts :
          /\ next_id.alert \in FanoutAlertIds
          /\ create_job_alert("a1", a[1], a[2])
    \/ \E j \in FanoutJobs :
          /\ next_id.job <= MaxJobs
          /\ JobCreateView("e1", j[1], j[2], j[3], Salary, 1)
    \/ \E pk \in JobIds, j \in FanoutJobs \cup JobEdits :
          JobUpdateView("e1", pk, j[1], j[2], j[3], Salary, 1)
    \/ \E pk \in JobIds, j \in FanoutJobs :
          JobAdmin_change_view("su", pk, j[1], j[2], j[3], Salary, 1)
    \/ NotificationListView("a1", 1)
    \/ \E pk \in NotificationIds : mark_notification_read("a1", pk)

SpecDedupe == Init /\ [][NextDedupe]_vars

\* C30: at every moment at most one notification exists for each pair of a
\* job and an alert, whatever jobs were created and edited, alerts subscribed
\* and inboxes read, and also for an alert that more than one of the three
\* candidate queries selects.
C30_NoDuplicateNotifications ==
    \A n1 \in notifications, n2 \in notifications :
        (n1.job = n2.job /\ n1.job_alert = n2.job_alert) => n1 = n2

\* a job was edited after its creation had notified, exactly once, an alert
\* that all three candidate queries select
C30_Witness ==
    /\ last.op = "JobUpdateView"
    /\ last.outcome = "ok"
    /\ \E job \in jobs, a \in alerts :
          /\ a \in matching_alerts(job)
          /\ a \in keyword_matches(job)
          /\ a \in location_matches(job)
          /\ Cardinality({n \in notifications :
                             n.job = job.id /\ n.job_alert = a.id}) = 1

====
